---- MODULE Spec2Model ----
(***************************************************************************)
(* gitfast: the scrape pipeline of lib/github.ts (ghFetch, searchUsers,    *)
(* fetchProfile, scrapeUsers) together with the location normaliser and    *)
(* the confidence scorer of lib/normalize.ts it calls.                     *)
(*                                                                         *)
(* Text is a sequence of one-character strings; a pictographic symbol is   *)
(* one element ("<pin>").  Time is in milliseconds.                        *)
(***************************************************************************)
EXTENDS Integers, Sequences, FiniteSets, TLC

NULL == "null"

\* a null / undefined text value (text is a sequence, so null is one too)
NullText == <<"<null>">>

\* an absent header / an undefined number
Absent == -1

\* NaN, the value of Number(x) for an x that is no number
NaN == -2147483647

\* a <= b of JavaScript numbers
JsLeq(a, b) == a # NaN /\ b # NaN /\ a <= b

\* Math.min(a, b)
MathMin(a, b) == IF a = NaN \/ b = NaN THEN NaN ELSE IF a < b THEN a ELSE b

\* the values of a parsed JSON body: t is the type, n the number, s the
\* string, a the elements of the array
JsUndefined == [t |-> "undefined", n |-> 0, s |-> "", a |-> <<>>]
JsNull == [t |-> "null", n |-> 0, s |-> "", a |-> <<>>]
JsNumber(n) == [t |-> "number", n |-> n, s |-> "", a |-> <<>>]
JsString(s) == [t |-> "string", n |-> 0, s |-> s, a |-> <<>>]
JsArray(a) == [t |-> "array", n |-> 0, s |-> "", a |-> a]

\* ToNumber, as Math.min applies it to its arguments; the strings of the
\* model are the empty one and ones that spell no number
ToNumber(v) ==
  CASE v.t = "number" -> v.n
    [] v.t = "null" -> 0
    [] v.t = "string" -> (IF v.s = "" THEN 0 ELSE NaN)
    [] OTHER -> NaN

\* a destructuring default: it replaces undefined, and nothing else
Default(v, d) == IF v.t = "undefined" THEN d ELSE v

Min(a, b) == IF a <= b THEN a ELSE b
Max(a, b) == IF a >= b THEN a ELSE b

Range(s) == {s[k] : k \in 1..Len(s)}

(***************************************************************************)
(* Text helpers (String.prototype.includes / trim / toLowerCase, \s, \w)   *)
(***************************************************************************)
WhiteSpace == {" ", "\t", "\n"}

Pictographic == {"<pin>"}

UpperAZ == <<"A","B","C","D","E","F","G","H","I","J","K","L","M",
             "N","O","P","Q","R","S","T","U","V","W","X","Y","Z">>

LowerAZ == <<"a","b","c","d","e","f","g","h","i","j","k","l","m",
             "n","o","p","q","r","s","t","u","v","w","x","y","z">>

LowerSet == Range(LowerAZ)

WordChars == Range(LowerAZ) \cup Range(UpperAZ)
             \cup {"0","1","2","3","4","5","6","7","8","9","_"}

LowerChar(c) ==
  IF \E k \in 1..Len(UpperAZ) : UpperAZ[k] = c
  THEN LowerAZ[CHOOSE k \in 1..Len(UpperAZ) : UpperAZ[k] = c]
  ELSE c

toLowerCase(s) == [k \in 1..Len(s) |-> LowerChar(s[k])]

includes(s, sub) ==
  \E k \in 1..(Len(s) - Len(sub) + 1) : SubSeq(s, k, k + Len(sub) - 1) = sub

RECURSIVE trimStart(_)
trimStart(s) ==
  IF s # <<>> /\ Head(s) \in WhiteSpace THEN trimStart(Tail(s)) ELSE s

RECURSIVE trimEnd(_)
trimEnd(s) ==
  IF s # <<>> /\ s[Len(s)] \in WhiteSpace
  THEN trimEnd(SubSeq(s, 1, Len(s) - 1)) ELSE s

trim(s) == trimEnd(trimStart(s))

\* .replace(/[\p{Emoji_Presentation}\p{Extended_Pictographic}]/gu, "")
RECURSIVE stripEmoji(_)
stripEmoji(s) ==
  IF s = <<>> THEN <<>>
  ELSE IF Head(s) \in Pictographic THEN stripEmoji(Tail(s))
  ELSE <<Head(s)>> \o stripEmoji(Tail(s))

\* .replace(/\s+/g, " ")
RECURSIVE collapseSpace(_)
collapseSpace(s) ==
  IF s = <<>> THEN <<>>
  ELSE IF Head(s) \in WhiteSpace
       THEN <<" ">> \o collapseSpace(trimStart(s))
       ELSE <<Head(s)>> \o collapseSpace(Tail(s))

(***************************************************************************)
(* lib/normalize.ts                                                        *)
(***************************************************************************)
UGANDA_CITIES ==
  << <<"k","a","m","p","a","l","a">>,
     <<"e","n","t","e","b","b","e">>,
     <<"j","i","n","j","a">>,
     <<"m","b","a","r","a","r","a">>,
     <<"g","u","l","u">>,
     <<"m","b","a","l","e">>,
     <<"m","u","k","o","n","o">>,
     <<"w","a","k","i","s","o">>,
     <<"l","i","r","a">>,
     <<"k","a","s","e","s","e">>,
     <<"f","o","r","t"," ","p","o","r","t","a","l">>,
     <<"a","r","u","a">>,
     <<"s","o","r","o","t","i">>,
     <<"k","a","b","a","l","e">>,
     <<"m","a","s","a","k","a">> >>

sUganda == <<"u","g","a","n","d","a">>
sKampala == <<"k","a","m","p","a","l","a">>
sKampalaUganda == <<"k","a","m","p","a","l","a",","," ","u","g","a","n","d","a">>

\* LOCATION_ALIASES as a sequence of <<key, value>> pairs
LOCATION_ALIASES ==
  << << <<"k","a","m","p","a","l","a"," ","u","g">>, sKampalaUganda >>,
     << <<"k","a","m","p","a","l","a",","," ","u","g">>, sKampalaUganda >>,
     << <<"u","g">>, sUganda >> >>

\* lines 50-55
cleanLocation(raw) == toLowerCase(trim(collapseSpace(stripEmoji(trim(raw)))))

\* normaliseLocation without the trim of line 54
normaliseLocationOneTrim(raw) ==
  IF raw = NullText \/ raw = <<>> THEN <<>>
  ELSE LET loc == toLowerCase(collapseSpace(stripEmoji(trim(raw))))
       IN IF \E a \in 1..Len(LOCATION_ALIASES) : LOCATION_ALIASES[a][1] = loc
          THEN LOCATION_ALIASES[CHOOSE a \in 1..Len(LOCATION_ALIASES) :
                                   LOCATION_ALIASES[a][1] = loc][2]
          ELSE loc

\* normaliseLocation with an alias applied when its key occurs in the string
normaliseLocationSubstring(raw) ==
  IF raw = NullText \/ raw = <<>> THEN <<>>
  ELSE LET loc == cleanLocation(raw)
       IN IF \E a \in 1..Len(LOCATION_ALIASES) :
                includes(loc, LOCATION_ALIASES[a][1])
          THEN LOCATION_ALIASES[CHOOSE a \in 1..Len(LOCATION_ALIASES) :
                                   includes(loc, LOCATION_ALIASES[a][1])][2]
          ELSE loc

normaliseLocation(raw) ==
  IF raw = NullText \/ raw = <<>> THEN <<>>
  ELSE LET loc == cleanLocation(raw)
       IN IF \E a \in 1..Len(LOCATION_ALIASES) : LOCATION_ALIASES[a][1] = loc
          THEN LOCATION_ALIASES[CHOOSE a \in 1..Len(LOCATION_ALIASES) :
                                   LOCATION_ALIASES[a][1] = loc][2]
          ELSE loc

\* cityTokenMatch without the ^ of the pattern
cityTokenMatchInner(loc, city) ==
  \E k \in 2..(Len(loc) - Len(city) + 1) :
     /\ SubSeq(loc, k, k + Len(city) - 1) = city
     /\ loc[k - 1] \notin LowerSet
     /\ (k + Len(city) > Len(loc) \/ loc[k + Len(city)] \notin LowerSet)

\* new RegExp(`(?:^|[^a-z])${city}(?:[^a-z]|$)`).test(loc)
cityTokenMatch(loc, city) ==
  \E k \in 1..(Len(loc) - Len(city) + 1) :
     /\ SubSeq(loc, k, k + Len(city) - 1) = city
     /\ (k = 1 \/ loc[k - 1] \notin LowerSet)
     /\ (k + Len(city) > Len(loc) \/ loc[k + Len(city)] \notin LowerSet)

\* ugTokenMatch with /ug/ for the pattern
ugAnywhere(loc) == includes(loc, <<"u", "g">>)

\* /(?:,\s*| )ug(?:\s*,|\s+|$)/.test(loc)
ugTokenMatch(loc) ==
  \E k \in 1..(Len(loc) - 1) :
     /\ loc[k] = "u" /\ loc[k + 1] = "g"
     /\ \/ (k > 1 /\ loc[k - 1] = " ")
        \/ \E j \in 1..(k - 1) :
              loc[j] = "," /\ \A m \in (j + 1)..(k - 1) : loc[m] \in WhiteSpace
     /\ \/ k + 1 = Len(loc)
        \/ (k + 2 <= Len(loc) /\ loc[k + 2] \in WhiteSpace)
        \/ \E j \in (k + 2)..Len(loc) :
              loc[j] = "," /\ \A m \in (k + 2)..(j - 1) : loc[m] \in WhiteSpace

\* /\bu\.g\.?\b/.test(loc)
ugDottedMatch(loc) ==
  \E k \in 1..(Len(loc) - 2) :
     /\ loc[k] = "u" /\ loc[k + 1] = "." /\ loc[k + 2] = "g"
     /\ (k = 1 \/ loc[k - 1] \notin WordChars)
     /\ \/ (k + 2 = Len(loc) \/ loc[k + 3] \notin WordChars)
        \/ (k + 4 <= Len(loc) /\ loc[k + 3] = "." /\ loc[k + 4] \in WordChars)

\* computeConfidenceScore with the rules in the opposite order
computeConfidenceScoreLowest(normalisedLocation) ==
  IF normalisedLocation = <<>> THEN 0
  ELSE IF ugDottedMatch(normalisedLocation) THEN 50
  ELSE IF ugTokenMatch(normalisedLocation) THEN 50
  ELSE IF \E c \in 1..Len(UGANDA_CITIES) :
             /\ UGANDA_CITIES[c] # sKampala
             /\ cityTokenMatch(normalisedLocation, UGANDA_CITIES[c]) THEN 75
  ELSE IF includes(normalisedLocation, sKampala) THEN 85
  ELSE IF includes(normalisedLocation, sUganda) THEN 100
  ELSE 0

computeConfidenceScore(normalisedLocation) ==
  IF normalisedLocation = <<>> THEN 0
  ELSE IF includes(normalisedLocation, sUganda) THEN 100
  ELSE IF includes(normalisedLocation, sKampala) THEN 85
  ELSE IF \E c \in 1..Len(UGANDA_CITIES) :
             /\ UGANDA_CITIES[c] # sKampala
             /\ cityTokenMatch(normalisedLocation, UGANDA_CITIES[c]) THEN 75
  ELSE IF ugTokenMatch(normalisedLocation) THEN 50
  ELSE IF ugDottedMatch(normalisedLocation) THEN 50
  ELSE 0

FALSE_POSITIVE_MARKERS ==
  << <<"u","n","i","t","e","d"," ","s","t","a","t","e","s">>,
     <<"u","n","i","t","e","d"," ","k","i","n","g","d","o","m">>,
     <<"c","a","n","a","d","a">>,
     <<" ","u","s"," ">>,
     <<" ","u","k"," ">>,
     <<",", " ", "u", "s">>,
     <<",", " ", "u", "k">> >>

\* lib/normalize.ts, lines 98-100
isUgandaLocation(normalisedLocation) ==
  computeConfidenceScore(normalisedLocation) > 0

\* isLikelyUganda without the loop of lines 123-125
isLikelyUgandaByScore(normalisedLocation) ==
  IF normalisedLocation = <<>> THEN FALSE
  ELSE computeConfidenceScore(normalisedLocation) # 0

isLikelyUganda(normalisedLocation) ==
  IF normalisedLocation = <<>> THEN FALSE
  ELSE IF computeConfidenceScore(normalisedLocation) = 0 THEN FALSE
  ELSE ~ \E m \in 1..Len(FALSE_POSITIVE_MARKERS) :
            includes(normalisedLocation, FALSE_POSITIVE_MARKERS[m])

(***************************************************************************)
(* src/normalize.js, the module of the command-line tool                   *)
(***************************************************************************)
\* src/normalize.js, lines 51-61
normaliseLocationJs(raw) ==
  IF raw = NullText \/ raw = <<>> THEN <<>>
  ELSE LET loc == toLowerCase(collapseSpace(trim(raw)))
       IN IF \E a \in 1..Len(LOCATION_ALIASES) : LOCATION_ALIASES[a][1] = loc
          THEN LOCATION_ALIASES[CHOOSE a \in 1..Len(LOCATION_ALIASES) :
                                   LOCATION_ALIASES[a][1] = loc][2]
          ELSE loc

\* src/normalize.js, lines 75-92
isUgandaLocationJs(normalisedLocation) ==
  IF normalisedLocation = <<>> THEN FALSE
  ELSE IF includes(normalisedLocation, sUganda) THEN TRUE
  ELSE IF \E c \in 1..Len(UGANDA_CITIES) :
             cityTokenMatch(normalisedLocation, UGANDA_CITIES[c]) THEN TRUE
  ELSE ugTokenMatch(normalisedLocation)

(***************************************************************************)
(* lib/github.ts: ghFetch                                                  *)
(***************************************************************************)
GhMaxRetries == 3

sRateLimit == <<"r","a","t","e"," ","l","i","m","i","t">>

\* response bodies of failed requests
BodyRateLimited == <<"A","P","I"," ","R","a","t","e"," ","L","i","m","i","t">>
BodyNotFound == <<"N","o","t"," ","F","o","u","n","d">>

SearchUrl(query, perPage, pg) ==
  [path |-> "/search/users", q |-> query, per_page |-> perPage, page |-> pg,
   login |-> NULL]

ProfileUrl(lg) ==
  [path |-> "/users", q |-> NULL, per_page |-> 0, page |-> 0, login |-> lg]

NoUrl == [path |-> NULL, q |-> NULL, per_page |-> 0, page |-> 0, login |-> NULL]

NoAnswer == [kind |-> NULL, status |-> 0, remaining |-> NULL, body |-> <<>>]

\* what ghFetch reads of an answer
Answer(res) ==
  [kind |-> res.kind, status |-> res.status, remaining |-> res.remaining,
   body |-> res.body]

\* One invocation of ghFetch.  st: "idle" (no invocation), "inflight" (awaiting
\* fetch), "sleeping" (awaiting sleep(waitMs)), "returned", "thrown"; wakeIn:
\* the time left of the sleep.  History of the invocation: req (the URL of the
\* last request), sent (requests issued), waits (sleeps begun), ans (the last
\* answer), resetIn (resetAt - Date.now() at the last rate-limit answer) and
\* slept (the time the last sleep has lasted).
IdleCall ==
  [url |-> NoUrl, attempt |-> 0, st |-> "idle", wakeIn |-> 0, req |-> NoUrl,
   sent |-> 0, waits |-> 0, ans |-> NoAnswer, resetIn |-> 0, slept |-> 0]

\* ghFetch(url): attempt 0 issues the first request (line 47)
NewCall(u) ==
  [IdleCall EXCEPT !.url = u, !.st = "inflight", !.req = u, !.sent = 1]

ResOk(res) == res.status >= 200 /\ res.status <= 299

\* isRateLimit without the two signals of lines 56-57
isRateLimitByStatus(res) == res.status = 403 \/ res.status = 429

\* lines 54-57
isRateLimit(res) ==
  /\ (res.status = 403 \/ res.status = 429)
  /\ \/ res.remaining = "0"
     \/ includes(toLowerCase(res.body), sRateLimit)

\* Date.now(), in ms: the model needs it only where no reset header is sent
ClockMs == 1000000000

\* Number(res.headers.get("x-ratelimit-reset") ?? "0") * 1000 - Date.now();
\* res.reset is the header, in seconds, as a distance from the current time
resetDeltaMs(res) ==
  IF res.hasReset THEN res.reset * 1000 ELSE 0 * 1000 - ClockMs

\* waitMs without the 2000 ms of line 62
waitMsUnpadded(res) == Max(resetDeltaMs(res), 5000)

\* waitMs without the minimum of 5000 ms
waitMsNoFloor(res) == resetDeltaMs(res) + 2000

\* lines 60-62
waitMs(res) == Max(resetDeltaMs(res) + 2000, 5000)

ErrApi(res, u) == [msg |-> "GitHub API", status |-> res.status, url |-> u]
ErrExhausted == [msg |-> "Exhausted retries", status |-> 0, url |-> NoUrl]
ErrAbort(u) == [msg |-> "TimeoutError", status |-> 0, url |-> u]
NoErr == [msg |-> NULL, status |-> 0, url |-> NoUrl]

\* ghFetch that waits and retries after every rate-limit answer
GhOnResponseNoLimit(c, res) ==
  IF res.kind = "reject"
  THEN [k |-> "throw", err |-> ErrAbort(c.url),
        call |-> [c EXCEPT !.st = "thrown", !.ans = Answer(res)]]
  ELSE IF ResOk(res)
  THEN [k |-> "return", err |-> NoErr,
        call |-> [c EXCEPT !.st = "returned", !.ans = Answer(res)]]
  ELSE IF isRateLimit(res)
  THEN [k |-> "sleep", err |-> NoErr,
        call |-> [c EXCEPT !.st = "sleeping", !.wakeIn = waitMs(res),
                           !.ans = Answer(res), !.resetIn = resetDeltaMs(res),
                           !.slept = 0, !.waits = @ + 1]]
  ELSE [k |-> "throw", err |-> ErrApi(res, c.url),
        call |-> [c EXCEPT !.st = "thrown", !.ans = Answer(res)]]

\* ghFetch from the settling of `await fetch(...)` to its next await, return or
\* throw.  res.kind = "reject": fetch rejected (the AbortSignal.timeout of line
\* 49 fired, or the network failed); ghFetch does not catch the rejection.
\* `await res.text()` settles with the response: the body is part of res.
GhOnResponse(c, res) ==
  IF res.kind = "reject"
  THEN [k |-> "throw", err |-> ErrAbort(c.url),
        call |-> [c EXCEPT !.st = "thrown", !.ans = Answer(res)]]
  ELSE IF ResOk(res)
  THEN [k |-> "return", err |-> NoErr,
        call |-> [c EXCEPT !.st = "returned", !.ans = Answer(res)]]
  ELSE IF isRateLimit(res) /\ c.attempt < GhMaxRetries
  THEN [k |-> "sleep", err |-> NoErr,
        call |-> [c EXCEPT !.st = "sleeping", !.wakeIn = waitMs(res),
                           !.ans = Answer(res), !.resetIn = resetDeltaMs(res),
                           !.slept = 0, !.waits = @ + 1]]
  ELSE [k |-> "throw", err |-> ErrApi(res, c.url),
        call |-> [c EXCEPT !.st = "thrown", !.ans = Answer(res)]]

\* ghFetch from the end of `await sleep(waitMs)`: continue; attempt++; the loop
\* test; then the next fetch, or line 69 after the loop
GhOnWake(c) ==
  IF c.attempt + 1 <= GhMaxRetries
  THEN [k |-> "retry", err |-> NoErr,
        call |-> [c EXCEPT !.attempt = @ + 1, !.st = "inflight",
                           !.req = c.url, !.sent = @ + 1]]
  ELSE [k |-> "throw", err |-> ErrExhausted,
        call |-> [c EXCEPT !.st = "thrown"]]

(***************************************************************************)
(* lib/github.ts: searchUsers, fetchProfile, scrapeUsers                   *)
(***************************************************************************)
VARIABLES
  opts,             \* ScrapeOptions of the run
  faultsLeft,       \* rate-limit answers and timeouts the run will still meet
  pc,               \* scrapeUsers: "start", "search", "pageDelay", "termDelay",
                    \*              "resolve", "done", "thrown"
  termIdx,          \* position of `loc` in locations (1-based)
  q,                \* the query of the current term
  page,             \* searchUsers: page
  items,            \* searchUsers: items
  scall,            \* the ghFetch invocation of searchUsers
  wakeIn,           \* the time left of the pending courtesy sleep()
  loginMap,         \* Map in insertion order: <<[item, sourceQueries], ...>>
  totalCandidates,
  uniqueUsers,
  entries,
  idx,
  workers,          \* worker() invocations: [st, i, call, last]; last is
                    \* history: the fetchProfile the worker ended last
  users,
  result,           \* the value scrapeUsers resolved with, or NoResult
  error,            \* the error scrapeUsers rejected with, or NoErr
  returned,         \* history: the items searchUsers returned, per term
  taken,            \* history: the indices workers took, in order
  outcome,          \* history, per login: Unresolved, Failed (fetchProfile
                    \* returned null) or the score of the resolved profile
  pages,            \* history: the pages the running searchUsers was
                    \* answered, <<[page, items, total_count], ...>>
  appended,         \* history: users as it stood before the sort of line 266
  body,             \* the scrape route: the request body
  http,             \* the scrape or export route: the response, or NoHttp
  store,            \* lib/cache: the Map, runId -> CacheEntry or NoEntry
  now,              \* Date.now(), in ms
  got,              \* history: the last cacheGet, [runId, at, users]
  stored,           \* history: the last cacheSet of each runId
  textPc,           \* a caller of lib/normalize: "idle", "input", "normalised",
                    \* "passed", "scored", "scoredPassed", "done"
  rawIn,            \* the string the caller holds
  normOut,          \* the argument of the scoring functions of
                    \* lib/normalize.ts: normaliseLocation(rawIn), or rawIn
  normJsOut,        \* the same for src/normalize.js
  scoreOut,         \* computeConfidenceScore(normOut)
  ugOut,            \* isUgandaLocation(normOut), lib/normalize.ts
  ugJsOut,          \* isUgandaLocation(normJsOut), src/normalize.js
  likelyOut,        \* isLikelyUganda(normOut)
  normAgain,        \* normaliseLocation(normOut)
  normJsAgain,      \* normaliseLocation(normJsOut), src/normalize.js
  csvPc,            \* a caller of buildCsv: "idle", "input", "built"
  csvUsers,         \* the argument of buildCsv
  csvRows,          \* line 37: per user, per column, the escaped field
  csvOut,           \* the text buildCsv returned
  web3Pc,           \* a caller of detectWeb3Skills: "idle", "input", "detected"
  web3In,           \* its arguments: [bio, company, blog]
  web3Out,          \* the skills it returned
  cliPc,            \* main() of the command-line tool: "idle", "start",
                    \* "search", "retrySleep", "pageSleep", "querySleep",
                    \* "fetch", "done"
  queryIdx,         \* the query of the loop of line 207, from 1
  cliPage,          \* searchLogins: page
  cliAttempt,       \* withRetry of the search request: attempt
  logins,           \* searchLogins: logins
  loginToQuery,     \* the Map of line 205, in insertion order
  tasks,            \* line 226: per entry [login, query, st, attempt, user]
  ugandaUsers,      \* the records written to the two files
  cliPages,         \* history: the items of each page received for the
                    \* current query
  searched,         \* history: per call of searchLogins [query, logins,
                    \* pages, failed]
  fetchCalls        \* history: the logins fetchUser was called with

vars == <<opts, faultsLeft, pc, termIdx, q, page, items, scall, wakeIn,
          loginMap, totalCandidates, uniqueUsers, entries, idx, workers, users,
          result, error, returned, taken, outcome, pages, appended, body, http,
          store, now, got, stored, textPc, rawIn, normOut, normJsOut, scoreOut,
          ugOut, ugJsOut, likelyOut, normAgain, normJsAgain, csvPc, csvUsers,
          csvRows, csvOut, web3Pc, web3In, web3Out, cliPc, queryIdx, cliPage,
          cliAttempt, logins, loginToQuery, tasks, ugandaUsers, cliPages,
          searched, fetchCalls>>

searchVars == <<termIdx, q, page, items, scall, wakeIn, loginMap,
                totalCandidates, returned, pages>>

resolveVars ==
  <<uniqueUsers, entries, idx, workers, users, result, taken, outcome,
    appended>>

\* the state of a caller of lib/normalize
textVars ==
  <<textPc, rawIn, normOut, normJsOut, scoreOut, ugOut, ugJsOut, likelyOut,
    normAgain, normJsAgain>>

\* the state of a caller of lib/csv buildCsv
csvVars == <<csvPc, csvUsers, csvRows, csvOut>>

\* the state of the command-line tool
cliVars ==
  <<cliPc, queryIdx, cliPage, cliAttempt, logins, loginToQuery, tasks,
    ugandaUsers, cliPages, searched, fetchCalls>>

\* the state of a caller of lib/web3 detectWeb3Skills
web3Vars == <<web3Pc, web3In, web3Out>>

\* the callers of the pure functions other than those of lib/normalize
otherThanText == <<csvVars, web3Vars, cliVars>>

\* the callers of the pure functions other than buildCsv
otherThanCsv == <<textVars, web3Vars, cliVars>>

\* the callers of the pure functions other than detectWeb3Skills
otherThanWeb3 == <<textVars, csvVars, cliVars>>

\* the state of the callers of the pure functions
pureVars == <<textVars, csvVars, web3Vars>>

\* the state outside lib/github, the routes and the cache
libVars == <<pureVars, cliVars>>

\* the state of the routes and of the run cache
webVars == <<body, http, store, now, got, stored>>

\* what became of a candidate
Unresolved == [st |-> "unresolved", score |-> 0]
Failed == [st |-> "failed", score |-> 0]
Resolved(score) == [st |-> "resolved", score |-> score]

NoLast == [login |-> NULL, waits |-> 0, resetIn |-> 0, ok |-> FALSE]

NoResult == [users |-> <<>>, totalCandidates |-> Absent, uniqueUsers |-> Absent]

\* lines 196-198
BuildQuery(loc, minRepos, minFollowers) ==
  "location:\"" \o loc \o "\""
    \o (IF minRepos > 0 THEN " repos:>" \o ToString(minRepos) ELSE "")
    \o (IF minFollowers > 0 THEN " followers:>" \o ToString(minFollowers) ELSE "")

\* MergeItem with a map.set on every item: a later term overwrites the entry's
\* provenance
MergeItemOverwrite(map, item, query) ==
  IF \E k \in 1..Len(map) : map[k].item.login = item.login
  THEN LET k == CHOOSE k \in 1..Len(map) : map[k].item.login = item.login
       IN [map EXCEPT ![k].sourceQueries = <<query>>]
  ELSE Append(map, [item |-> item, sourceQueries |-> <<query>>])

\* lines 204-209, for one item
MergeItem(map, item, query) ==
  IF \E k \in 1..Len(map) : map[k].item.login = item.login
  THEN LET k == CHOOSE k \in 1..Len(map) : map[k].item.login = item.login
       IN [map EXCEPT ![k].sourceQueries = Append(@, query)]
  ELSE Append(map, [item |-> item, sourceQueries |-> <<query>>])

\* CountCandidates with `=` for `+=`
CountCandidatesAssign(total, its) == Len(its)

\* line 201
CountCandidates(total, its) == total + Len(its)

\* PushIfKept without the test of line 234
PushAlways(us, rec, minScore) == Append(us, rec)

\* lines 234-256
PushIfKept(us, rec, minScore) ==
  IF rec.confidenceScore < minScore THEN us ELSE Append(us, rec)

\* lines 203-210
RECURSIVE MergeItems(_, _, _)
MergeItems(map, its, query) ==
  IF its = <<>> THEN map
  ELSE MergeItems(MergeItem(map, Head(its), query), Tail(its), query)

\* SortsBefore with >= for the followers: equal records change places
SortsBeforeOrTies(a, b) ==
  \/ a.confidenceScore > b.confidenceScore
  \/ (a.confidenceScore = b.confidenceScore /\ a.followers >= b.followers)

\* the comparator of line 267 puts a strictly before b
SortsBefore(a, b) ==
  \/ a.confidenceScore > b.confidenceScore
  \/ (a.confidenceScore = b.confidenceScore /\ a.followers > b.followers)

\* Array.prototype.sort is stable: x goes after every element it does not
\* strictly precede
InsertUser(sorted, x) ==
  LET keep == {k \in 1..Len(sorted) : ~ SortsBefore(x, sorted[k])}
      n == Cardinality(keep)
  IN SubSeq(sorted, 1, n) \o <<x>> \o SubSeq(sorted, n + 1, Len(sorted))

RECURSIVE SortUsers(_)
SortUsers(us) ==
  IF us = <<>> THEN <<>>
  ELSE InsertUser(SortUsers(SubSeq(us, 1, Len(us) - 1)), us[Len(us)])

\* lines 231-256: the record pushed for a profile, or none when filtered (234)
\* UserRecord with the first query for the list of them
UserRecordFirstQuery(profile, sourceQueries) ==
  LET normLoc == normaliseLocation(profile.location)
  IN [login |-> profile.login,
      location |-> profile.location,
      followers |-> profile.followers,
      confidenceScore |-> computeConfidenceScore(normLoc),
      isLikelyUganda |-> isLikelyUganda(normLoc),
      sourceQueries |-> <<Head(sourceQueries)>>]

UserRecord(profile, sourceQueries) ==
  LET normLoc == normaliseLocation(profile.location)
      score == computeConfidenceScore(normLoc)
  IN [login |-> profile.login,
      location |-> profile.location,
      followers |-> profile.followers,
      confidenceScore |-> score,
      isLikelyUganda |-> isLikelyUganda(normLoc),
      sourceQueries |-> sourceQueries]

(***************************************************************************)
(* The remote API and the caller: the inputs of a run                      *)
(***************************************************************************)
MaxTerms == 2
MaxPageItems == 2
MaxTotalCount == 2
MaxResults == 3
MaxFaults == 1

Locations == {"Uganda", "Kampala"}
Logins == {"u1", "u2", "u3"}

SeqsUpTo(S, n) == UNION {[1..m -> S] : m \in 0..n}

\* profiles the remote API may hold for a login: <<location, followers>>
ProfileSamples ==
  { << <<" ","K","a","m","p","a","l","a"," "," ","U","G"," ">>, 1 >>,
    << <<" ","K","a","m","p","a","l","a"," "," ","U","G"," ">>, 7 >>,
    << <<"G","u","l","u">>, 7 >>,
    << NullText, 7 >> }

\* the options of the run
OptsSet ==
  [locations : SeqsUpTo(Locations, MaxTerms),
   minRepos : {0},
   minFollowers : {0},
   maxPagesPerQuery : {1, 2},
   perPage : {1, 2},
   concurrency : {0, 1, 2},
   minScore : {50, 100}]

\* the null of fetchProfile
NoProfile == [login |-> NULL, location |-> NullText, followers |-> 0]

NoData == [items |-> <<>>, total_count |-> Absent, profile |-> NoProfile]

OkResponse(d) ==
  [kind |-> "response", status |-> 200, remaining |-> "42", hasReset |-> FALSE,
   reset |-> 0, body |-> <<>>, data |-> d]

SearchData(its, tc) ==
  OkResponse([items |-> its, total_count |-> tc, profile |-> NoProfile])

\* a remote index that answers consistently: the users of each location, served
\* in pages of per_page items with total_count their number
Directory ==
  [loc \in Locations |->
     IF loc = "Uganda"
     THEN <<[login |-> "u1"], [login |-> "u2"], [login |-> "u3"]>>
     ELSE <<[login |-> "u3"], [login |-> "u1"]>>]

DirectoryPage(loc, pg, perPage) ==
  SubSeq(Directory[loc], (pg - 1) * perPage + 1,
         Min(pg * perPage, Len(Directory[loc])))

\* what /users/:login may answer
ProfileResponses(lg) ==
  { OkResponse([items |-> <<>>, total_count |-> Absent,
                profile |-> [login |-> lg, location |-> pr[1],
                             followers |-> pr[2]]]) :
      pr \in ProfileSamples }

FailedResponse(st, rem, hasRs, rs, b) ==
  [kind |-> "response", status |-> st, remaining |-> rem, hasReset |-> hasRs,
   reset |-> rs, body |-> b, data |-> NoData]

\* non-success answers: every status with and without each of the two
\* rate-limit signals, and the quota answers with a reset header that is past,
\* near or far
FailureResponses ==
  { FailedResponse(st, rem, FALSE, 0, b) :
      st \in {403, 429, 404, 500}, rem \in {"0", NULL},
      b \in {BodyRateLimited, BodyNotFound} }
  \cup
  { FailedResponse(st, "0", TRUE, rs, BodyNotFound) :
      st \in {403, 429}, rs \in {-2, 1, 4} }

\* the usual failures: a quota answer whose reset is far, a secondary limit
\* told in the body, a forbidden request and a missing resource
FewFailures ==
  { FailedResponse(403, "0", TRUE, 4, BodyNotFound),
    FailedResponse(429, NULL, FALSE, 0, BodyRateLimited),
    FailedResponse(403, NULL, FALSE, 0, BodyNotFound),
    FailedResponse(404, NULL, FALSE, 0, BodyNotFound) }

RejectResponse ==
  [kind |-> "reject", status |-> 0, remaining |-> NULL, hasReset |-> FALSE,
   reset |-> 0, body |-> <<>>, data |-> NoData]

\* a rate-limit answer: the remote API gives a bounded number of them
IsFault(res) == res.kind = "response" /\ ~ ResOk(res) /\ isRateLimit(res)

\* the answers the remote API may give now to a request whose successful
\* answers are okSet and whose failed answers are failSet
Answers(okSet, failSet) ==
  {res \in okSet \cup failSet \cup {RejectResponse} :
     IsFault(res) => faultsLeft > 0}

Consume(res) == IF IsFault(res) THEN faultsLeft - 1 ELSE faultsLeft

\* the consistent index answers the page request of the current term
DirectoryAnswers ==
  { SearchData(DirectoryPage(opts.locations[termIdx], page, opts.perPage),
               Len(Directory[opts.locations[termIdx]])) }

\* an arbitrary index: any items, any total_count; at most MaxResults items
\* over the whole run
AnySearchAnswers ==
  { SearchData(its, tc) :
      its \in SeqsUpTo({[login |-> l] : l \in {"u1", "u2"}},
                       Min(MaxPageItems,
                           MaxResults - totalCandidates - Len(items))),
      tc \in {Absent} \cup 0..MaxTotalCount }

\* one profile that passes every filter and one that passes none
FewProfileResponses(lg) ==
  { OkResponse([items |-> <<>>, total_count |-> Absent,
                profile |-> [login |-> lg, location |-> loc, followers |-> 7]]) :
      loc \in { <<"U","g","a","n","d","a">>, <<"N","a","i","r","o","b","i">> } }

(***************************************************************************)
(* scrapeUsers as a state machine.  The code between two awaits runs       *)
(* atomically (one JavaScript thread); every action is one such stretch.   *)
(***************************************************************************)
(***************************************************************************)
(* lib/cache (the second half of lib/csv.ts) and the routes: values        *)
(***************************************************************************)
\* the run handles of the model
RunIds == {"r1", "r2"}

\* no entry of the Map under a key (store.get gives undefined)
NoEntry == [present |-> FALSE, users |-> <<>>, createdAt |-> 0]

\* CacheEntry with the users in the opposite order
CacheEntryReversed(us, at) ==
  [present |-> TRUE, users |-> [k \in 1..Len(us) |-> us[Len(us) + 1 - k]],
   createdAt |-> at]

\* a CacheEntry (lines 51-54)
CacheEntry(us, at) == [present |-> TRUE, users |-> us, createdAt |-> at]

\* lines 56 and 87
TTL_MS == 30 * 60 * 1000
EVICT_MS == 5 * 60 * 1000

\* history: the last cacheSet of a handle, and how many there were
NoStored == [present |-> FALSE, users |-> <<>>, createdAt |-> 0, sets |-> 0]

\* history: a call of cacheGet: its argument, its time, whether it returned
\* users (or null), and the users; entry is the last cacheSet of the handle
\* as of the call
NoGet ==
  [runId |-> NULL, at |-> 0, found |-> FALSE, users |-> <<>>,
   entry |-> NoStored]

\* the body of a request: kind is "object" when request.json() gave an
\* object, "invalid" when it threw
NoBody ==
  [kind |-> "none", locations |-> JsUndefined, minRepos |-> JsUndefined,
   minFollowers |-> JsUndefined, maxPagesPerQuery |-> JsUndefined,
   perPage |-> JsUndefined, concurrency |-> JsUndefined,
   minScore |-> JsUndefined]

\* no run handle
NoRun == "none"

\* a response: its status; of the scrape route's 200 the runId, the users
\* and stats.keptAfterFilter; of an export route's 200 the users.  get is
\* history: the call of cacheGet an export route made
Http(st) ==
  [status |-> st, runId |-> NoRun, users |-> <<>>, kept |-> 0, get |-> NoGet]

NoHttp == Http(0)

\* the options before the route has built them
NoOpts ==
  [locations |-> <<>>, minRepos |-> 0, minFollowers |-> 0,
   maxPagesPerQuery |-> 0, perPage |-> 0, concurrency |-> 0, minScore |-> 0]

PAGE_DELAY_MS == 500
QUERY_DELAY_MS == 1000

\* nothing has called lib/normalize
NoCaller ==
  /\ normOut = <<>>
  /\ normJsOut = <<>>
  /\ scoreOut = 0
  /\ ugOut = FALSE
  /\ ugJsOut = FALSE
  /\ likelyOut = FALSE
  /\ normAgain = <<>>
  /\ normJsAgain = <<>>

\* no caller of buildCsv
NoCsv ==
  /\ csvPc = "idle"
  /\ csvUsers = <<>>
  /\ csvRows = <<>>
  /\ csvOut = <<>>

\* no caller of detectWeb3Skills
NoWeb3 ==
  /\ web3Pc = "idle"
  /\ web3In = [bio |-> NullText, company |-> NullText, blog |-> NullText]
  /\ web3Out = <<>>

\* the command-line tool does not run, or has not started
NoCliYet ==
  /\ queryIdx = 0
  /\ cliPage = 0
  /\ cliAttempt = 0
  /\ logins = <<>>
  /\ loginToQuery = <<>>
  /\ tasks = <<>>
  /\ ugandaUsers = <<>>
  /\ cliPages = <<>>
  /\ searched = <<>>
  /\ fetchCalls = <<>>

NoCli == cliPc = "idle" /\ NoCliYet

\* no caller of a pure function other than those of lib/normalize
NoTools == NoCsv /\ NoWeb3 /\ NoCli

\* no caller of lib/normalize
NoText ==
  /\ textPc = "idle"
  /\ rawIn = NullText

\* nothing has run yet
Fresh ==
  /\ NoCaller
  /\ termIdx = 0
  /\ q = ""
  /\ page = 0
  /\ items = <<>>
  /\ scall = IdleCall
  /\ wakeIn = 0
  /\ loginMap = <<>>
  /\ totalCandidates = 0
  /\ uniqueUsers = 0
  /\ entries = <<>>
  /\ idx = 0
  /\ workers = <<>>
  /\ users = <<>>
  /\ result = NoResult
  /\ error = NoErr
  /\ returned = <<>>
  /\ taken = <<>>
  /\ outcome = [l \in Logins |-> Unresolved]
  /\ pages = <<>>
  /\ appended = <<>>
  /\ http = NoHttp
  /\ store = [r \in RunIds |-> NoEntry]
  /\ now = 0
  /\ got = NoGet
  /\ stored = [r \in RunIds |-> NoStored]

InitWith(optsSet, budget) ==
  /\ opts \in optsSet
  /\ faultsLeft = budget
  /\ pc = "start"
  /\ body = NoBody
  /\ textPc = "idle"
  /\ rawIn = NullText
  /\ Fresh
  /\ NoTools

\* lines 265-270: sort in place and return
Finish(us, unique) ==
  /\ users' = SortUsers(us)
  /\ result' = [users |-> SortUsers(us), totalCandidates |-> totalCandidates,
                uniqueUsers |-> unique]
  /\ appended' = us
  /\ pc' = "done"

\* the index a worker takes at line 226 when the cursor is at c
TakeIndex(c) == c

\* AdvanceCursor with `idx` for `idx++`
AdvanceCursorStuck(c) == c

\* the cursor after line 226
AdvanceCursor(c) == c + 1

\* WorkerCount with one worker for every entry
WorkerCountAll(concurrency, n) == n

\* line 260: the number of worker() invocations
\* (Array.from({length: x}) has no element when x is NaN or below 1)
WorkerCount(concurrency, n) ==
  IF MathMin(concurrency, n) = NaN THEN 0 ELSE Max(0, MathMin(concurrency, n))

\* ReadEntries of a worker that takes its entry off the list (shift)
ReadEntriesShift(es) == Tail(es)

\* lines 225-258: what worker() leaves of entries when it has read
\* entries[i] (line 227); no statement of worker() assigns to the list, to an
\* entry or to loginMap
ReadEntries(es) == es

\* a worker at lines 225-228 when the cursor is at c, up to the await of
\* fetchProfile
StartWorker(c, lst) ==
  [st |-> "fetching", i |-> TakeIndex(c),
   call |-> NewCall(ProfileUrl(loginMap[TakeIndex(c) + 1].item.login)),
   last |-> lst]

\* the cursor after k takes from c
RECURSIVE CursorAfter(_, _)
CursorAfter(c, k) == IF k = 0 THEN c ELSE AdvanceCursor(CursorAfter(c, k - 1))

\* lines 216-263 up to `await Promise.all(workers)`: each worker() call runs to
\* its first await before the next one is made
StartResolve ==
  LET n == WorkerCount(opts.concurrency, Len(loginMap))
  IN /\ uniqueUsers' = Len(loginMap)
     /\ entries' = loginMap
     /\ workers' = [w \in 1..n |-> StartWorker(CursorAfter(0, w - 1), NoLast)]
     /\ idx' = CursorAfter(0, n)
     /\ taken' = [w \in 1..n |-> TakeIndex(CursorAfter(0, w - 1))]
     /\ IF n = 0
        THEN Finish(<<>>, Len(loginMap))
        ELSE pc' = "resolve" /\ UNCHANGED <<users, result, appended>>
     /\ pages' = <<>>
     /\ UNCHANGED <<q, page, items, scall, wakeIn, loginMap, totalCandidates,
                    returned, outcome, error>>

\* line 195: the next iteration of `for (const loc of locations)`, up to the
\* first await of searchUsers; or the end of the loop
\* HasTerm with a loop that ends after its first iteration
HasTermOnce(k) == k <= 1 /\ k <= Len(opts.locations)

\* line 195: the loop has a k-th term
HasTerm(k) == k <= Len(opts.locations)

EnterTerm(k) ==
  /\ termIdx' = k
  /\ IF HasTerm(k)
     THEN LET query == BuildQuery(opts.locations[k], opts.minRepos,
                                  opts.minFollowers)
          IN /\ q' = query
             /\ page' = 1
             /\ items' = <<>>
             /\ pages' = <<>>
             /\ IF JsLeq(1, opts.maxPagesPerQuery)
                THEN /\ pc' = "search"
                     /\ scall' = NewCall(SearchUrl(query, opts.perPage, 1))
                     /\ UNCHANGED <<wakeIn, loginMap, totalCandidates,
                                    returned>>
                ELSE \* the loop of line 94 has no iteration: line 123
                     /\ pc' = "termDelay"
                     /\ scall' = IdleCall
                     /\ wakeIn' = QUERY_DELAY_MS
                     /\ totalCandidates' = CountCandidates(totalCandidates, <<>>)
                     /\ loginMap' = MergeItems(loginMap, <<>>, query)
                     /\ returned' = Append(returned, <<>>)
             /\ UNCHANGED error
             /\ UNCHANGED resolveVars
     ELSE StartResolve

\* searchUsers returns `its` (line 123); lines 200-213 up to the sleep
FinishTerm(its, pgs) ==
  /\ totalCandidates' = CountCandidates(totalCandidates, its)
  /\ loginMap' = MergeItems(loginMap, its, q)
  /\ returned' = Append(returned, its)
  /\ pages' = pgs
  /\ items' = its
  /\ scall' = IdleCall
  /\ pc' = "termDelay"
  /\ wakeIn' = QUERY_DELAY_MS
  /\ UNCHANGED <<termIdx, q, page, error>>
  /\ UNCHANGED resolveVars

\* an error thrown in searchUsers: nothing catches it (lines 99, 200), so
\* scrapeUsers rejects with it
SearchThrow(e, c) ==
  /\ pc' = "thrown"
  /\ error' = e
  /\ scall' = c
  /\ UNCHANGED <<termIdx, q, page, items, wakeIn, loginMap, totalCandidates,
                 returned, pages>>
  /\ UNCHANGED resolveVars

Call ==
  /\ pc = "start"
  /\ EnterTerm(1)
  /\ UNCHANGED <<opts, faultsLeft, webVars, libVars>>

\* StopsPaging without the test of line 114
StopsPagingOnEmpty(pageItems, all, total_count) == Len(pageItems) = 0

\* lines 112-115: the break after a page
StopsPaging(pageItems, all, total_count) ==
  \/ Len(pageItems) = 0
  \/ (total_count # Absent /\ Len(all) >= total_count)

\* NextPage that requests ahead of the page it awaits
NextPageAhead(p) == p + 2

\* the page after page p (line 94, page++)
NextPage(p) == p + 1

\* searchUsers, lines 99-120: the page request is answered
SearchResponse(okSet, failSet) ==
  /\ pc = "search"
  /\ scall.st = "inflight"
  /\ \E res \in Answers(okSet, failSet) :
       LET r == GhOnResponse(scall, res)
           all == items \o res.data.items
           pgs == Append(pages, [page |-> scall.url.page,
                                 items |-> res.data.items,
                                 total_count |-> res.data.total_count])
       IN /\ faultsLeft' = Consume(res)
          /\ UNCHANGED <<opts, webVars, libVars>>
          /\ CASE r.k = "sleep" ->
                    /\ scall' = r.call
                    /\ UNCHANGED <<pc, termIdx, q, page, items, wakeIn, loginMap,
                                   totalCandidates, returned, pages, error>>
                    /\ UNCHANGED resolveVars
               [] r.k = "throw" -> SearchThrow(r.err, r.call)
               [] r.k = "return" ->
                    IF StopsPaging(res.data.items, all, res.data.total_count)
                    THEN FinishTerm(all, pgs)
                    ELSE /\ items' = all
                         /\ pages' = pgs
                         /\ pc' = "pageDelay"
                         /\ wakeIn' = PAGE_DELAY_MS
                         /\ scall' = IdleCall
                         /\ UNCHANGED <<termIdx, q, page, loginMap,
                                        totalCandidates, returned, error>>
                         /\ UNCHANGED resolveVars

\* ghFetch of searchUsers: the rate-limit sleep ends
SearchWake ==
  /\ pc = "search"
  /\ scall.st = "sleeping"
  /\ scall.wakeIn = 0
  /\ LET r == GhOnWake(scall)
     IN IF r.k = "retry"
        THEN /\ scall' = r.call
             /\ UNCHANGED <<pc, termIdx, q, page, items, wakeIn, loginMap,
                            totalCandidates, returned, pages, error>>
             /\ UNCHANGED resolveVars
        ELSE SearchThrow(r.err, r.call)
  /\ UNCHANGED <<opts, faultsLeft, webVars, libVars>>

\* searchUsers, line 120 and the loop test of line 94
PageDelayDone ==
  /\ pc = "pageDelay"
  /\ wakeIn = 0
  /\ IF JsLeq(NextPage(page), opts.maxPagesPerQuery)
     THEN /\ page' = NextPage(page)
          /\ scall' = NewCall(SearchUrl(q, opts.perPage, NextPage(page)))
          /\ pc' = "search"
          /\ UNCHANGED <<termIdx, q, items, wakeIn, loginMap, totalCandidates,
                         returned, pages, error>>
          /\ UNCHANGED resolveVars
     ELSE FinishTerm(items, pages)
  /\ UNCHANGED <<opts, faultsLeft, webVars, libVars>>

\* scrapeUsers, line 213
TermDelayDone ==
  /\ pc = "termDelay"
  /\ wakeIn = 0
  /\ EnterTerm(termIdx + 1)
  /\ UNCHANGED <<opts, faultsLeft, webVars, libVars>>

\* fetchProfile, lines 150-155: the value it resolves with when ghFetch ended
\* as r with answer res
fetchProfile(r, res) == IF r.k = "throw" THEN NoProfile ELSE res.data.profile

\* worker(): after the record of the current entry was pushed or skipped, the
\* loop test of line 225 and the next take, or the end of the worker; the last
\* worker to end resolves Promise.all.  c is the ended ghFetch invocation.
WorkerContinue(w, us, c, res) ==
  LET lst == [login |-> c.url.login, waits |-> c.waits, resetIn |-> c.resetIn,
              ok |-> res # Failed]
  IN /\ outcome' = [outcome EXCEPT ![c.url.login] = res]
     /\ IF idx < Len(entries)
        THEN /\ workers' = [workers EXCEPT ![w] = StartWorker(idx, lst)]
             /\ idx' = AdvanceCursor(idx)
             /\ taken' = Append(taken, TakeIndex(idx))
             /\ users' = us
             /\ UNCHANGED <<pc, result, appended>>
        ELSE LET ws == [workers EXCEPT ![w] = [st |-> "done", i |-> @.i,
                                                 call |-> IdleCall,
                                                 last |-> lst]]
             IN /\ workers' = ws
                /\ UNCHANGED <<idx, taken>>
                /\ IF \A v \in 1..Len(ws) : ws[v].st = "done"
                   THEN Finish(us, uniqueUsers)
                   ELSE users' = us /\ UNCHANGED <<pc, result, appended>>
     /\ entries' = ReadEntries(entries)
     /\ UNCHANGED <<uniqueUsers, error>>
     /\ UNCHANGED searchVars

\* SkipEntry with `return` for `continue`: the worker ends at the failure
SkipEntryReturn(w, c) ==
  LET ws == [workers EXCEPT ![w] = [st |-> "done", i |-> @.i,
                                     call |-> IdleCall, last |-> NoLast]]
  IN /\ outcome' = [outcome EXCEPT ![c.url.login] = Failed]
     /\ workers' = ws
     /\ IF \A v \in 1..Len(ws) : ws[v].st = "done"
        THEN Finish(users, uniqueUsers)
        ELSE UNCHANGED <<users, pc, result, appended>>
     /\ UNCHANGED <<idx, taken, uniqueUsers, entries, error>>
     /\ UNCHANGED searchVars

\* line 229: fetchProfile returned null
SkipEntry(w, c) == WorkerContinue(w, users, c, Failed)

\* lines 231-256: the profile is scored, filtered and pushed
KeepOrDrop(w, c, profile, e) ==
  LET rec == UserRecord(profile, e.sourceQueries)
  IN WorkerContinue(w, PushIfKept(users, rec, opts.minScore), c,
                    Resolved(rec.confidenceScore))

\* lines 228-256: what the worker does with the value of fetchProfile
AfterProfile(w, c, profile, e) ==
  IF profile = NoProfile THEN SkipEntry(w, c) ELSE KeepOrDrop(w, c, profile, e)

\* fetchProfile and worker lines 228-256: the profile request is answered
WorkerResponse(w, okSet, failSet) ==
  /\ pc = "resolve"
  /\ workers[w].st = "fetching"
  /\ workers[w].call.st = "inflight"
  /\ LET c == workers[w].call
         e == entries[workers[w].i + 1]
     IN \E res \in Answers(okSet[c.url.login], failSet) :
          LET r == GhOnResponse(c, res)
          IN /\ faultsLeft' = Consume(res)
             /\ UNCHANGED <<opts, webVars, libVars>>
             /\ IF r.k = "sleep"
                THEN /\ workers' = [workers EXCEPT ![w].call = r.call]
                     /\ UNCHANGED <<pc, uniqueUsers, entries, idx, users,
                                    result, appended, taken, outcome, error>>
                     /\ UNCHANGED searchVars
                ELSE AfterProfile(w, r.call, fetchProfile(r, res), e)

\* ghFetch of a worker: the rate-limit sleep ends
WorkerWake(w) ==
  /\ pc = "resolve"
  /\ workers[w].st = "fetching"
  /\ workers[w].call.st = "sleeping"
  /\ workers[w].call.wakeIn = 0
  /\ LET r == GhOnWake(workers[w].call)
     IN IF r.k = "retry"
        THEN /\ workers' = [workers EXCEPT ![w].call = r.call]
             /\ UNCHANGED <<pc, uniqueUsers, entries, idx, users, result, appended, taken,
                            outcome, error>>
             /\ UNCHANGED searchVars
        ELSE AfterProfile(w, r.call, fetchProfile(r, RejectResponse),
                          entries[workers[w].i + 1])
  /\ UNCHANGED <<opts, faultsLeft, webVars, libVars>>

\* the time left of every pending timer (setTimeout of sleep)
Timers ==
  (IF pc \in {"pageDelay", "termDelay"} THEN {wakeIn} ELSE {})
  \cup (IF scall.st = "sleeping" THEN {scall.wakeIn} ELSE {})
  \cup {workers[w].call.wakeIn :
          w \in {v \in 1..Len(workers) : workers[v].call.st = "sleeping"}}

\* a ghFetch invocation after d ms
Elapse(c, d) ==
  IF c.st = "sleeping"
  THEN [c EXCEPT !.wakeIn = Max(0, @ - d), !.slept = @ + d]
  ELSE c

\* time passes up to the next timer
Tick ==
  /\ \E d \in Timers :
       /\ d > 0
       /\ \A u \in Timers : u > 0 => d <= u
       /\ wakeIn' = IF pc \in {"pageDelay", "termDelay"}
                    THEN Max(0, wakeIn - d) ELSE wakeIn
       /\ scall' = Elapse(scall, d)
       /\ workers' = [w \in 1..Len(workers) |->
                        [workers[w] EXCEPT !.call = Elapse(@, d)]]
  /\ UNCHANGED <<libVars, webVars, opts, faultsLeft, pc, error, termIdx, q, page, items, loginMap,
                 totalCandidates, returned, pages, uniqueUsers, entries, idx, users,
                 result, appended, taken, outcome>>

(***************************************************************************)
(* Spec: a consistent index, any sampled profile, any options              *)
(***************************************************************************)
Init == InitWith(OptsSet, MaxFaults)

Next ==
  \/ Call
  \/ SearchResponse(DirectoryAnswers, FewFailures)
  \/ SearchWake
  \/ PageDelayDone
  \/ TermDelayDone
  \/ \E w \in 1..Len(workers) :
       WorkerResponse(w, [l \in Logins |-> ProfileResponses(l)], FewFailures)
  \/ \E w \in 1..Len(workers) : WorkerWake(w)
  \/ Tick

Spec == Init /\ [][Next]_vars

(***************************************************************************)
(* SpecSearch: an arbitrary index (any items on any page, repeats          *)
(* included), two profiles                                                 *)
(***************************************************************************)
SearchOptsSet ==
  { [locations |-> ls, minRepos |-> f[1], minFollowers |-> f[2],
     maxPagesPerQuery |-> mp, perPage |-> 100, concurrency |-> 1,
     minScore |-> 50] :
      ls \in SeqsUpTo(Locations, MaxTerms),
      f \in {<<0, 0>>, <<5, 10>>},
      mp \in {1, 2, 3} }

InitSearch == InitWith(SearchOptsSet, MaxFaults)

NextSearch ==
  \/ Call
  \/ SearchResponse(AnySearchAnswers, FewFailures)
  \/ SearchWake
  \/ PageDelayDone
  \/ TermDelayDone
  \/ \E w \in 1..Len(workers) :
       WorkerResponse(w, [l \in Logins |-> FewProfileResponses(l)],
                      FewFailures)
  \/ \E w \in 1..Len(workers) : WorkerWake(w)
  \/ Tick

SpecSearch == InitSearch /\ [][NextSearch]_vars

(***************************************************************************)
(* SpecRetry: one term, one page, one worker; the remote API may answer    *)
(* every attempt of a call with a rate limit                               *)
(***************************************************************************)
RetryOptsSet ==
  [locations : {<<"Kampala">>},
   minRepos : {0},
   minFollowers : {0},
   maxPagesPerQuery : {1},
   perPage : {1},
   concurrency : {1},
   minScore : {50}]

InitRetry == InitWith(RetryOptsSet, GhMaxRetries + 2)

NextRetry ==
  \/ Call
  \/ SearchResponse(DirectoryAnswers, FailureResponses)
  \/ SearchWake
  \/ PageDelayDone
  \/ TermDelayDone
  \/ \E w \in 1..Len(workers) :
       WorkerResponse(w, [l \in Logins |-> FewProfileResponses(l)],
                      FailureResponses)
  \/ \E w \in 1..Len(workers) : WorkerWake(w)
  \/ Tick

SpecRetry == InitRetry /\ [][NextRetry]_vars

\* SpecRetryFair: SpecRetry under the scheduling of the event loop: a fetch
\* settles (with an answer, or by the AbortSignal.timeout of line 49), a
\* timer of sleep fires, and a continuation that is ready is run
SpecRetryFair == SpecRetry /\ WF_vars(NextRetry)

(***************************************************************************)
(* SpecRoute: the scrape route (POST), from the request to the response    *)
(***************************************************************************)
\* the bodies of the model.  perPage is a number when given: what the remote
\* API does with per_page=NaN is not in this repository
Bodies ==
  { [NoBody EXCEPT !.kind = "invalid"] }
  \cup
  { [NoBody EXCEPT !.kind = "object", !.locations = l,
                   !.maxPagesPerQuery = mp, !.perPage = pp,
                   !.concurrency = cc] :
      l \in { JsUndefined, JsNull, JsString("Kampala"), JsArray(<<>>),
              JsArray(<<"Kampala">>) },
      mp \in { JsUndefined, JsNumber(1), JsNumber(50), JsString("abc") },
      pp \in { JsNumber(2), JsNumber(1000) },
      cc \in { JsUndefined, JsNumber(0), JsNumber(2), JsNumber(50),
               JsString("abc") } }

\* RejectsLocations without the test of the length
RejectsNoArray(l) == l.t # "array"

\* line 24
RejectsLocations(l) == l.t # "array" \/ Len(l.a) = 0

\* lines 31-39
BuildOpts(b) ==
  [locations |-> Default(b.locations, JsArray(<<"Uganda", "Kampala">>)).a,
   minRepos |-> Default(b.minRepos, JsNumber(0)).n,
   minFollowers |-> Default(b.minFollowers, JsNumber(0)).n,
   maxPagesPerQuery |->
     MathMin(ToNumber(Default(b.maxPagesPerQuery, JsNumber(3))), 10),
   perPage |-> MathMin(ToNumber(Default(b.perPage, JsNumber(100))), 100),
   concurrency |-> MathMin(ToNumber(Default(b.concurrency, JsNumber(5))), 10),
   minScore |-> Default(b.minScore, JsNumber(50)).n]

\* lines 6-42, up to the call of scrapeUsers
Post ==
  /\ pc = "request"
  /\ IF body.kind = "invalid"
     THEN /\ http' = Http(400)
          /\ pc' = "responded"
          /\ UNCHANGED opts
     ELSE IF RejectsLocations(
               Default(body.locations, JsArray(<<"Uganda", "Kampala">>)))
     THEN /\ http' = Http(400)
          /\ pc' = "responded"
          /\ UNCHANGED opts
     ELSE /\ opts' = BuildOpts(body)
          /\ pc' = "start"
          /\ UNCHANGED http
  /\ UNCHANGED <<libVars, faultsLeft, error, body, store, now, got, stored>>
  /\ UNCHANGED searchVars
  /\ UNCHANGED resolveVars

\* PutEntry that keeps the entry a key has
PutEntryIfAbsent(m, runId, e) ==
  IF m[runId].present THEN m ELSE [m EXCEPT ![runId] = e]

\* Map.set
PutEntry(m, runId, e) == [m EXCEPT ![runId] = e]

\* lib/cache, lines 60-62
cacheSet(runId, us) ==
  /\ store' = PutEntry(store, runId, CacheEntry(us, now))
  /\ stored' = [stored EXCEPT ![runId] =
                  [present |-> TRUE, users |-> us, createdAt |-> now,
                   sets |-> @.sets + 1]]

\* lines 42-61, from the end of scrapeUsers
RouteRespond ==
  /\ \/ /\ pc = "done"
        /\ \E runId \in RunIds :
             /\ cacheSet(runId, result.users)
             /\ http' = [Http(200) EXCEPT !.runId = runId,
                                          !.users = result.users,
                                          !.kept = Len(result.users)]
     \/ /\ pc = "thrown"
        /\ http' = Http(500)
        /\ UNCHANGED <<store, stored>>
  /\ pc' = "responded"
  /\ UNCHANGED <<libVars, opts, faultsLeft, error, body, now, got>>
  /\ UNCHANGED searchVars
  /\ UNCHANGED resolveVars

InitRoute ==
  /\ body \in Bodies
  /\ opts = NoOpts
  /\ faultsLeft = MaxFaults
  /\ pc = "request"
  /\ textPc = "idle"
  /\ rawIn = NullText
  /\ Fresh
  /\ NoTools

(***************************************************************************)
(* SpecCache: lib/cache and the export routes (GET), under a clock         *)
(***************************************************************************)
\* the number of calls of cacheSet in a behaviour
MaxSets == 3

RECURSIVE SetsOf(_)
SetsOf(S) ==
  IF S = {} THEN 0
  ELSE LET r == CHOOSE x \in S : TRUE
       IN stored[r].sets + SetsOf(S \ {r})

cachedA ==
  UserRecord([login |-> "u1", location |-> <<"G", "u", "l", "u">>,
              followers |-> 7], <<"location:\"Uganda\"">>)

cachedB ==
  UserRecord([login |-> "u2", location |-> NullText, followers |-> 1],
             <<"location:\"Uganda\"">>)

\* the lists of users a run may store
UserLists == { <<>>, <<cachedA>>, <<cachedB, cachedA>> }

\* the instants of the clock the model visits
Instants == {0, 1, TTL_MS + 1, TTL_MS + 2}

\* the runId parameter of an export request: NULL when there is none
Params == RunIds \cup {"", NULL}

\* Expired that no age satisfies
ExpiredNever(entry, t) == FALSE

\* lines 67 and 78: the entry is older than the TTL at time t
Expired(entry, t) == t - entry.createdAt > TTL_MS

\* cacheGet returns the users of the entry (line 71) and not null
Hit(runId) == store[runId].present /\ ~ Expired(store[runId], now)

\* lib/cache, lines 64-72
cacheGet(runId) ==
  /\ got' = [runId |-> runId, at |-> now, found |-> Hit(runId),
             users |-> IF Hit(runId) THEN store[runId].users ELSE <<>>,
             entry |-> stored[runId]]
  /\ store' = IF store[runId].present /\ Expired(store[runId], now)
              THEN [store EXCEPT ![runId] = NoEntry]
              ELSE store

\* a run is stored
Set ==
  /\ \E runId \in RunIds, us \in UserLists :
       /\ SetsOf(RunIds) < MaxSets
       /\ cacheSet(runId, us)
  /\ UNCHANGED <<libVars, opts, faultsLeft, pc, error, body, http, now, got>>
  /\ UNCHANGED searchVars
  /\ UNCHANGED resolveVars

\* a run is looked up
Get ==
  /\ \E runId \in RunIds : cacheGet(runId)
  /\ UNCHANGED <<libVars, opts, faultsLeft, pc, error, body, http, now, stored>>
  /\ UNCHANGED searchVars
  /\ UNCHANGED resolveVars

\* evict that deletes every entry
evictAll ==
  /\ now >= EVICT_MS
  /\ store' = [r \in RunIds |-> NoEntry]
  /\ UNCHANGED <<libVars, opts, faultsLeft, pc, error, body, http, now, got,
                 stored>>
  /\ UNCHANGED searchVars
  /\ UNCHANGED resolveVars

\* lines 75-87: the interval timer fires
evict ==
  /\ now >= EVICT_MS
  /\ store' = [r \in RunIds |->
                IF store[r].present /\ Expired(store[r], now)
                THEN NoEntry ELSE store[r]]
  /\ UNCHANGED <<libVars, opts, faultsLeft, pc, error, body, http, now, got, stored>>
  /\ UNCHANGED searchVars
  /\ UNCHANGED resolveVars

\* Date.now() grows
Advance ==
  /\ \E t \in Instants : t > now /\ now' = t
  /\ UNCHANGED <<libVars, opts, faultsLeft, pc, error, body, http, store, got, stored>>
  /\ UNCHANGED searchVars
  /\ UNCHANGED resolveVars

\* StatusOf that answers 200 whatever cacheGet returned
StatusAlwaysOk(found) == 200

\* export routes, lines 14-21 and 45-54: users is null, or is an array
StatusOf(found) == IF found THEN 200 ELSE 404

\* export routes (JSON, lines 4-29; CSV, lines 35-62), for the parameter runId
ExportOf(runId) ==
  IF runId = NULL \/ runId = ""
  THEN /\ http' = Http(400)
       /\ UNCHANGED <<store, got>>
  ELSE /\ cacheGet(runId)
       /\ http' = [Http(StatusOf(got'.found)) EXCEPT !.runId = runId,
                                                    !.users = got'.users,
                                                    !.get = got']

\* an export request
ExportGet ==
  /\ \E runId \in Params : ExportOf(runId)
  /\ UNCHANGED <<libVars, opts, faultsLeft, pc, error, body, now, stored>>
  /\ UNCHANGED searchVars
  /\ UNCHANGED resolveVars

\* the caller of the scrape route exports the run whose handle the response
\* gave it
ExportRun ==
  /\ pc = "responded"
  /\ http.status = 200
  /\ ExportOf(http.runId)
  /\ UNCHANGED <<libVars, opts, faultsLeft, pc, error, body, now, stored>>
  /\ UNCHANGED searchVars
  /\ UNCHANGED resolveVars

NextRoute ==
  \/ Post
  \/ Call
  \/ SearchResponse(DirectoryAnswers, FewFailures)
  \/ SearchWake
  \/ PageDelayDone
  \/ TermDelayDone
  \/ \E w \in 1..Len(workers) :
       WorkerResponse(w, [l \in Logins |-> FewProfileResponses(l)],
                      FewFailures)
  \/ \E w \in 1..Len(workers) : WorkerWake(w)
  \/ Tick
  \/ RouteRespond
  \/ ExportRun
  \/ (pc = "responded" /\ Advance)

SpecRoute == InitRoute /\ [][NextRoute]_vars

InitCache ==
  /\ body = NoBody
  /\ opts = NoOpts
  /\ faultsLeft = 0
  /\ pc = "serving"
  /\ textPc = "idle"
  /\ rawIn = NullText
  /\ Fresh
  /\ NoTools

NextCache ==
  \/ Set
  \/ Get
  \/ evict
  \/ Advance
  \/ ExportGet

SpecCache == InitCache /\ [][NextCache]_vars

(***************************************************************************)
(* SpecText: a caller of lib/normalize and of src/normalize.js: a raw       *)
(* location is normalised (or handed over as it is), scored, and            *)
(* normalised again                                                         *)
(***************************************************************************)
MaxRawLen == 4

\* the characters of the short raw strings
RawChars == {" ", "u", "g", "U", ",", "<pin>"}

\* the words of the longer raw strings
RawWords ==
  { <<>>,
    <<"U","g","a","n","d","a">>,
    <<"u","g","a","n","d","a">>,
    <<"K","a","m","p","a","l","a">>,
    <<"g","u","l","u">>,
    <<"f","o","r","t"," ","p","o","r","t","a","l">>,
    <<"u","g">>,
    <<"U","G">>,
    <<"u",".","g",".">>,
    <<"d","r","u","g">>,
    <<"d","e","b","u","g","g","i","n","g">>,
    <<"u","s">>,
    <<"c","a","n","a","d","a">>,
    <<"k","e","n","y","a">>,
    <<"<pin>">> }

\* the ends of the longer raw strings
RawTails ==
  { <<>>,
    <<" ","u","g">>,
    <<","," ","u","s">>,
    <<" ","k","e","n","y","a">> }

RawSeparators ==
  { <<>>,
    <<" ">>,
    <<","," ">>,
    <<",">>,
    <<" "," ">> }

\* the raw locations of the model: null, every string of at most MaxRawLen
\* characters of RawChars, the known cities, and two words with a separator
\* between them and an end, with or without spaces around them
RawInputs ==
  {NullText}
  \cup SeqsUpTo(RawChars, MaxRawLen)
  \cup Range(UGANDA_CITIES)
  \cup { sp \o w1 \o s1 \o w2 \o tl \o sp :
           sp \in {<<>>, <<" ">>}, w1 \in RawWords, s1 \in RawSeparators,
           w2 \in RawWords, tl \in RawTails }

\* the caller normalises the string it holds
Normalise ==
  /\ textPc = "input"
  /\ normOut' = normaliseLocation(rawIn)
  /\ normJsOut' = normaliseLocationJs(rawIn)
  /\ textPc' = "normalised"
  /\ UNCHANGED <<rawIn, scoreOut, ugOut, ugJsOut, likelyOut, normAgain,
                 normJsAgain>>
  /\ UNCHANGED <<opts, faultsLeft, pc, error, webVars>>
  /\ UNCHANGED otherThanText
  /\ UNCHANGED searchVars
  /\ UNCHANGED resolveVars

\* the caller hands the string it holds to the scoring functions as it is
Pass ==
  /\ textPc = "input"
  /\ rawIn # NullText
  /\ normOut' = rawIn
  /\ normJsOut' = rawIn
  /\ textPc' = "passed"
  /\ UNCHANGED <<rawIn, scoreOut, ugOut, ugJsOut, likelyOut, normAgain,
                 normJsAgain>>
  /\ UNCHANGED <<opts, faultsLeft, pc, error, webVars>>
  /\ UNCHANGED otherThanText
  /\ UNCHANGED searchVars
  /\ UNCHANGED resolveVars

\* the scoring functions are applied
Score ==
  /\ textPc \in {"normalised", "passed"}
  /\ scoreOut' = computeConfidenceScore(normOut)
  /\ ugOut' = isUgandaLocation(normOut)
  /\ ugJsOut' = isUgandaLocationJs(normJsOut)
  /\ likelyOut' = isLikelyUganda(normOut)
  /\ textPc' = IF textPc = "passed" THEN "scoredPassed" ELSE "scored"
  /\ UNCHANGED <<rawIn, normOut, normJsOut, normAgain, normJsAgain>>
  /\ UNCHANGED <<opts, faultsLeft, pc, error, webVars>>
  /\ UNCHANGED otherThanText
  /\ UNCHANGED searchVars
  /\ UNCHANGED resolveVars

\* the normalised string is normalised again
Renormalise ==
  /\ textPc = "scored"
  /\ normAgain' = normaliseLocation(normOut)
  /\ normJsAgain' = normaliseLocationJs(normJsOut)
  /\ textPc' = "done"
  /\ UNCHANGED <<rawIn, normOut, normJsOut, scoreOut, ugOut, ugJsOut,
                 likelyOut>>
  /\ UNCHANGED <<opts, faultsLeft, pc, error, webVars>>
  /\ UNCHANGED otherThanText
  /\ UNCHANGED searchVars
  /\ UNCHANGED resolveVars

InitText ==
  /\ rawIn \in RawInputs
  /\ textPc = "input"
  /\ body = NoBody
  /\ opts = NoOpts
  /\ faultsLeft = 0
  /\ pc = "none"
  /\ Fresh
  /\ NoTools

NextText ==
  \/ Normalise
  \/ Pass
  \/ Score
  \/ Renormalise

SpecText == InitText /\ [][NextText]_vars

(***************************************************************************)
(* lib/csv.ts: buildCsv.  A text is a sequence of one-character strings;   *)
(* a column name of the header is one element of the text                  *)
(***************************************************************************)
COLUMNS ==
  <<"login", "name", "location", "followers", "public_repos",
    "confidenceScore", "company", "blog", "email", "html_url", "bio",
    "twitter_username", "created_at", "updated_at", "sourceQueries">>

\* the values of a field of a record: null, undefined (the field is absent),
\* a string, a number (s is what String(value) gives) and an array of strings
FieldNull == [t |-> "null", s |-> <<>>, a |-> <<>>]
FieldAbsent == [t |-> "undefined", s |-> <<>>, a |-> <<>>]
FieldString(s) == [t |-> "string", s |-> s, a |-> <<>>]
FieldNumber(digits) == [t |-> "number", s |-> digits, a |-> <<>>]
FieldArray(a) == [t |-> "array", s |-> <<>>, a |-> a]

\* Array.prototype.join over texts
RECURSIVE join(_, _)
join(texts, sep) ==
  IF texts = <<>> THEN <<>>
  ELSE IF Len(texts) = 1 THEN texts[1]
  ELSE texts[1] \o sep \o join(Tail(texts), sep)

\* line 28: str.replace(/"/g, '""')
RECURSIVE doubleQuotes(_)
doubleQuotes(str) ==
  IF str = <<>> THEN <<>>
  ELSE (IF Head(str) = "\"" THEN <<"\"", "\"">> ELSE <<Head(str)>>)
         \o doubleQuotes(Tail(str))

\* line 26: Array.isArray(value) ? value.join("|") : String(value)
fieldText(value) ==
  IF value.t = "array" THEN join(value.a, <<"|">>) ELSE value.s

\* lines 24-32
escapeCsvField(value) ==
  IF value.t \in {"null", "undefined"} THEN <<>>
  ELSE LET str == fieldText(value)
       IN IF \/ includes(str, <<",">>)
             \/ includes(str, <<"\"">>)
             \/ includes(str, <<"\n">>)
          THEN <<"\"">> \o doubleQuotes(str) \o <<"\"">>
          ELSE str

\* line 37: COLUMNS.map((col) => escapeCsvField(user[col]))
escapedRow(user) == [k \in 1..Len(COLUMNS) |-> escapeCsvField(user[COLUMNS[k]])]

\* lines 34-40
buildCsv(us) ==
  LET header == join([k \in 1..Len(COLUMNS) |-> <<COLUMNS[k]>>], <<",">>)
      rows == [u \in 1..Len(us) |-> join(escapedRow(us[u]), <<",">>)]
  IN join(<<header>> \o rows, <<"\n">>)

\* the longest value of the field that varies
MaxFieldLen == 3

FieldChars == {"a", ",", "\"", "\n", "\r", "|"}

\* name, bio: string | null
FieldValues ==
  {FieldNull, FieldAbsent}
    \cup {FieldString(s) : s \in SeqsUpTo(FieldChars, MaxFieldLen)}

\* sourceQueries: string[]
ListValues ==
  {FieldArray(a) : a \in SeqsUpTo(SeqsUpTo(FieldChars \ {"|"}, 1), 2)}

\* a record of the cache: every column holds a plain value
sampleUser ==
  [c \in Range(COLUMNS) |->
     IF c \in {"followers", "public_repos", "confidenceScore"}
     THEN FieldNumber(<<"5", "0">>)
     ELSE IF c = "sourceQueries" THEN FieldArray(<<<<"q">>>>)
     ELSE FieldString(<<"x">>)]

CsvInputs ==
  {<<>>}
    \cup {<<[sampleUser EXCEPT ![c] = v]>> :
            c \in {"name", "bio"}, v \in FieldValues}
    \cup {<<[sampleUser EXCEPT !["sourceQueries"] = v]>> : v \in ListValues}
    \cup {<<sampleUser, [sampleUser EXCEPT !["name"] = v]>> :
            v \in {FieldNull, FieldString(<<"a", ",">>)}}

\* a caller passes the records to buildCsv
BuildCsv ==
  /\ csvPc = "input"
  /\ csvPc' = "built"
  /\ csvRows' = [u \in 1..Len(csvUsers) |-> escapedRow(csvUsers[u])]
  /\ csvOut' = buildCsv(csvUsers)
  /\ UNCHANGED csvUsers
  /\ UNCHANGED <<opts, faultsLeft, pc, error, webVars>>
  /\ UNCHANGED otherThanCsv
  /\ UNCHANGED searchVars
  /\ UNCHANGED resolveVars

InitCsv ==
  /\ csvPc = "input"
  /\ csvUsers \in CsvInputs
  /\ csvRows = <<>>
  /\ csvOut = <<>>
  /\ body = NoBody
  /\ opts = NoOpts
  /\ faultsLeft = 0
  /\ pc = "none"
  /\ Fresh
  /\ NoText
  /\ NoWeb3
  /\ NoCli

NextCsv == BuildCsv

SpecCsv == InitCsv /\ [][NextCsv]_vars

(***************************************************************************)
(* lib/web3.ts: detectWeb3Skills, on texts                                 *)
(***************************************************************************)
\* lines 7-29
WEB3_SKILLS ==
  << <<"s","o","l","i","d","i","t","y">>,
     <<"e","t","h","e","r","e","u","m">>,
     <<"b","l","o","c","k","c","h","a","i","n">>,
     <<"w","e","b","3">>,
     <<"s","m","a","r","t"," ","c","o","n","t","r","a","c","t">>,
     <<"d","e","f","i">>,
     <<"n","f","t">>,
     <<"d","a","p","p">>,
     <<"i","p","f","s">>,
     <<"d","a","o">>,
     <<"t","o","k","e","n">>,
     <<"c","r","y","p","t","o","c","u","r","r","e","n","c","y">>,
     <<"p","o","l","y","g","o","n">>,
     <<"h","a","r","d","h","a","t">>,
     <<"t","r","u","f","f","l","e">>,
     <<"f","o","u","n","d","r","y">>,
     <<"v","y","p","e","r">>,
     <<"c","h","a","i","n","l","i","n","k">>,
     <<"c","o","s","m","o","s">>,
     <<"p","o","l","k","a","d","o","t">>,
     <<"s","u","b","s","t","r","a","t","e">> >>

\* line 48: .filter(Boolean) keeps neither null nor the empty string
Truthy(s) == s # NullText /\ s # <<>>

\* lines 47-50
web3Text(bio, company, blog) ==
  toLowerCase(join(SelectSeq(<<bio, company, blog>>, Truthy), <<" ">>))

\* line 58: (?:^|[^a-z])skill(?:[^a-z]|$) tested against text
boundedMatch(text, skill) ==
  \E k \in 1..(Len(text) - Len(skill) + 1) :
    /\ SubSeq(text, k, k + Len(skill) - 1) = skill
    /\ (k = 1 \/ text[k - 1] \notin LowerSet)
    /\ (k + Len(skill) > Len(text) \/ text[k + Len(skill)] \notin LowerSet)

\* lines 54-62: the predicate of the filter
skillMatches(text, skill) ==
  IF Len(skill) <= 4 THEN boundedMatch(text, skill) ELSE includes(text, skill)

\* lines 41-63
detectWeb3Skills(bio, company, blog) ==
  LET text == web3Text(bio, company, blog)
  IN IF text = <<>> THEN <<>>
     ELSE SelectSeq(WEB3_SKILLS, LAMBDA skill : skillMatches(text, skill))

BioTexts ==
  { NullText,
    <<>>,
    <<"t","o","k","e","n">>,
    <<"t","o","k","e","n","i","z","e","r">>,
    <<"T","o","k","e","n","i","z","e","r"," ","d","e","v">>,
    <<"D","A","O"," ","g","o","v","e","r","n","a","n","c","e">>,
    <<"d","a","o","i","s","t">>,
    <<"t","h","e"," ","d","a","o",".">>,
    <<"N","F","T"," ","c","o","l","l","e","c","t","o","r">>,
    <<"n","f","t","s">>,
    <<"w","e","b","3","j","s">>,
    <<"W","e","b","3"," ","d","e","v">>,
    <<"s","m","a","r","t"," ","c","o","n","t","r","a","c","t","s">>,
    <<"I"," ","l","o","v","e"," ","D","e","F","i",".">>,
    <<"S","o","l","i","d","i","t","y"," ","a","n","d"," ","E","t","h","e","r","e","u","m">>,
    <<"c","o","o","k","i","n","g">>,
    <<"t","o","k","e","n","s",","," ","d","a","o">> }

CompanyTexts ==
  { NullText,
    <<"E","t","h","e","r","e","u","m"," ","F","o","u","n","d","a","t","i","o","n">>,
    <<"D","a","o","i","s","t">>,
    <<"d","a","o">>,
    <<"T","o","k","e","n","C","o","r","p">> }

BlogTexts ==
  { NullText,
    <<"h","t","t","p","s",":","/","/","d","e","f","i","-","b","l","o","g",".","e","x","a","m","p","l","e",".","c","o","m">>,
    <<"t","o","k","e","n","i","z","e","r",".","i","o">>,
    <<"n","f","t">> }

\* a caller passes the three fields of a profile to detectWeb3Skills
DetectWeb3 ==
  /\ web3Pc = "input"
  /\ web3Pc' = "detected"
  /\ web3Out' = detectWeb3Skills(web3In.bio, web3In.company, web3In.blog)
  /\ UNCHANGED web3In
  /\ UNCHANGED <<opts, faultsLeft, pc, error, webVars>>
  /\ UNCHANGED otherThanWeb3
  /\ UNCHANGED searchVars
  /\ UNCHANGED resolveVars

InitWeb3 ==
  /\ web3Pc = "input"
  /\ web3In \in [bio : BioTexts, company : CompanyTexts, blog : BlogTexts]
  /\ web3Out = <<>>
  /\ body = NoBody
  /\ opts = NoOpts
  /\ faultsLeft = 0
  /\ pc = "none"
  /\ Fresh
  /\ NoText
  /\ NoCsv
  /\ NoCli

NextWeb3 == DetectWeb3

SpecWeb3 == InitWeb3 /\ [][NextWeb3]_vars

(***************************************************************************)
(* src/scraper.js, the command-line tool (src/unnamed/part_004)            *)
(***************************************************************************)
\* lines 37-47; a query is named by its location
SEARCH_QUERIES ==
  <<"Uganda", "Kampala", "Entebbe", "Jinja", "Mbarara", "Gulu", "Mbale",
    "Mukono", "Wakiso">>

\* the queries of a run: the first MaxQueries of SEARCH_QUERIES
MaxQueries == 2

CliQueries == SubSeq(SEARCH_QUERIES, 1, MaxQueries)

\* line 33: Number(process.env.MAX_PAGES ?? 10), a run with MAX_PAGES=2
MAX_PAGES == 2

\* line 34: Number(process.env.CONCURRENCY ?? 5), a run with CONCURRENCY=2
CONCURRENCY == 2

\* line 94: maxRetries = 3
WithRetryMax == 3

\* the rejections a run meets
MaxCliFaults == 2

\* what an Octokit call rejects with: err.status,
\* err.response.headers["x-ratelimit-remaining"], and whether err.message
\* mentions a rate limit
CliErrors ==
  { [status |-> 429, remaining |-> "0", rateLimitMessage |-> FALSE],
    [status |-> 403, remaining |-> "1", rateLimitMessage |-> TRUE],
    [status |-> 403, remaining |-> "1", rateLimitMessage |-> FALSE] }

\* lines 99-103
isRateLimitErr(err) ==
  /\ err.status \in {403, 429}
  /\ (err.remaining = "0" \/ err.rateLimitMessage)

\* lines 95-110: the catch of withRetry on a rejection of the given attempt
withRetryCatch(attempt, err) ==
  IF isRateLimitErr(err) /\ attempt < WithRetryMax THEN "wait" ELSE "throw"

\* response.data of search.users: a page of logins and total_count
CliSearchData ==
  [items : {<<>>, <<"u1">>, <<"u2", "u1">>, <<"u3", "u2">>},
   total_count : {1, 3}]

\* line 212: loginToQuery.has(login)
has(map, login) == \E k \in 1..Len(map) : map[k].login = login

\* a merge that records the query of every sighting
mergeLoginLast(map, login, query) ==
  IF has(map, login)
  THEN [k \in 1..Len(map) |->
          IF map[k].login = login THEN [map[k] EXCEPT !.query = query]
          ELSE map[k]]
  ELSE Append(map, [login |-> login, query |-> query])

\* lines 212-214
mergeLogin(map, login, query) ==
  IF has(map, login) THEN map
  ELSE Append(map, [login |-> login, query |-> query])

\* lines 211-215
RECURSIVE mergeLogins(_, _, _)
mergeLogins(map, ls, query) ==
  IF ls = <<>> THEN map
  ELSE mergeLogins(mergeLogin(map, Head(ls), query), Tail(ls), query)

\* a searchLogins that returns nothing after a failure
loginsDropped(ls) == <<>>

\* lines 134-137 and 153: after the catch, break, and `return logins`
loginsOnError(ls) == ls

\* fetchUser returned null
NoUser ==
  [login |-> NULL, location |-> NullText, followers |-> 0,
   source_query |-> NULL]

\* lines 169-185, the fields the tool reads again
userRecord(data, sourceQuery) ==
  [login |-> data.login, location |-> data.location,
   followers |-> data.followers, source_query |-> sourceQuery]

\* the profiles the remote API may hold for a login
CliProfiles(login) ==
  [login : {login},
   location : {<<"K","a","m","p","a","l","a">>, <<"L","o","n","d","o","n">>,
               NullText},
   followers : {IF login = "u3" THEN 9 ELSE 5}]

\* lines 225-228: one task per entry of the Map; pLimit runs the first
\* CONCURRENCY of them and queues the others
newTasks(map) ==
  [k \in 1..Len(map) |->
     [login |-> map[k].login, query |-> map[k].query,
      st |-> IF k <= CONCURRENCY THEN "running" ELSE "queued",
      attempt |-> 0, user |-> NoUser]]

\* pLimit: a task has settled, the first queued one is run
startNext(ts) ==
  IF \E k \in 1..Len(ts) : ts[k].st = "queued"
  THEN LET n == CHOOSE k \in 1..Len(ts) :
                  /\ ts[k].st = "queued"
                  /\ \A j \in 1..(k - 1) : ts[j].st # "queued"
       IN [ts EXCEPT ![n].st = "running"]
  ELSE ts

\* the logins of the tasks that run in ts and did not in before
started(before, ts) ==
  LET ks == SelectSeq([k \in 1..Len(ts) |-> k],
                      LAMBDA k : ts[k].st = "running"
                                 /\ before[k].st = "queued")
  IN [j \in 1..Len(ks) |-> ts[ks[j]].login]

\* lines 232-235: the predicate of the filter
confirmed(user) ==
  IF user = NoUser THEN FALSE
  ELSE isUgandaLocationJs(normaliseLocationJs(user.location))

\* line 240: sort((a, b) => b.followers - a.followers), a stable sort
RECURSIVE insertByFollowers(_, _)
insertByFollowers(sorted, u) ==
  IF sorted = <<>> THEN <<u>>
  ELSE IF Head(sorted).followers >= u.followers
  THEN <<Head(sorted)>> \o insertByFollowers(Tail(sorted), u)
  ELSE <<u>> \o sorted

RECURSIVE sortByFollowers(_)
sortByFollowers(us) ==
  IF us = <<>> THEN <<>>
  ELSE insertByFollowers(sortByFollowers(SubSeq(us, 1, Len(us) - 1)),
                         us[Len(us)])

\* lines 229-240: Promise.all has resolved with the users of ts
written(ts) ==
  sortByFollowers(SelectSeq([k \in 1..Len(ts) |-> ts[k].user], confirmed))

\* what no step of the tool changes
CliFrame ==
  /\ UNCHANGED <<opts, pc, error, webVars, pureVars>>
  /\ UNCHANGED searchVars
  /\ UNCHANGED resolveVars

\* lines 207-209: main() reaches the first await of searchLogins
CliStart ==
  /\ cliPc = "start"
  /\ cliPc' = "search"
  /\ queryIdx' = 1
  /\ cliPage' = 1
  /\ cliAttempt' = 0
  /\ logins' = <<>>
  /\ cliPages' = <<>>
  /\ UNCHANGED <<faultsLeft, loginToQuery, tasks, ugandaUsers, searched,
                 fetchCalls>>
  /\ CliFrame

\* lines 153 and 209-218: searchLogins returns ls; the merge; sleep(1000)
returnLogins(ls, pgs, failed) ==
  /\ cliPc' = "querySleep"
  /\ logins' = ls
  /\ cliPages' = pgs
  /\ loginToQuery' = mergeLogins(loginToQuery, ls, CliQueries[queryIdx])
  /\ searched' = Append(searched, [query |-> CliQueries[queryIdx],
                                   logins |-> ls, pages |-> pgs,
                                   failed |-> failed])
  /\ UNCHANGED <<queryIdx, cliPage, cliAttempt, tasks, ugandaUsers,
                 fetchCalls>>

\* lines 125-150: the search request is answered with a page
CliSearchOk ==
  /\ cliPc = "search"
  /\ \E data \in CliSearchData :
       LET ls == logins \o data.items
           pgs == Append(cliPages, data.items)
       IN IF Len(data.items) = 0 \/ Len(ls) >= data.total_count
          THEN returnLogins(ls, pgs, FALSE)
          ELSE /\ cliPc' = "pageSleep"
               /\ logins' = ls
               /\ cliPages' = pgs
               /\ UNCHANGED <<queryIdx, cliPage, cliAttempt, loginToQuery,
                              tasks, ugandaUsers, searched, fetchCalls>>
  /\ UNCHANGED faultsLeft
  /\ CliFrame

\* lines 95-110 and 134-137: the search request is rejected
CliSearchError ==
  /\ cliPc = "search"
  /\ faultsLeft > 0
  /\ faultsLeft' = faultsLeft - 1
  /\ \E err \in CliErrors :
       IF withRetryCatch(cliAttempt, err) = "wait"
       THEN /\ cliPc' = "retrySleep"
            /\ UNCHANGED <<queryIdx, cliPage, cliAttempt, logins,
                           loginToQuery, tasks, ugandaUsers, cliPages,
                           searched, fetchCalls>>
       ELSE returnLogins(loginsOnError(logins), cliPages, TRUE)
  /\ CliFrame

\* lines 78-84 and 105-107: waitForRateLimit is over; continue
CliRetryWake ==
  /\ cliPc = "retrySleep"
  /\ cliPc' = "search"
  /\ cliAttempt' = cliAttempt + 1
  /\ UNCHANGED <<faultsLeft, queryIdx, cliPage, logins, loginToQuery, tasks,
                 ugandaUsers, cliPages, searched, fetchCalls>>
  /\ CliFrame

\* lines 149-150 and 123: sleep(500) is over; page++
CliPageWake ==
  /\ cliPc = "pageSleep"
  /\ IF cliPage + 1 <= MAX_PAGES
     THEN /\ cliPc' = "search"
          /\ cliPage' = cliPage + 1
          /\ cliAttempt' = 0
          /\ UNCHANGED <<queryIdx, logins, loginToQuery, tasks, ugandaUsers,
                         cliPages, searched, fetchCalls>>
     ELSE returnLogins(logins, cliPages, FALSE)
  /\ UNCHANGED faultsLeft
  /\ CliFrame

\* lines 218 and 207, or 221-229: sleep(1000) is over; the next query, or
\* the tasks of the profile phase
CliQueryWake ==
  /\ cliPc = "querySleep"
  /\ IF queryIdx < Len(CliQueries)
     THEN /\ cliPc' = "search"
          /\ queryIdx' = queryIdx + 1
          /\ cliPage' = 1
          /\ cliAttempt' = 0
          /\ logins' = <<>>
          /\ cliPages' = <<>>
          /\ UNCHANGED <<loginToQuery, tasks, ugandaUsers, searched,
                         fetchCalls>>
     ELSE LET ts == newTasks(loginToQuery)
          IN /\ tasks' = ts
             /\ fetchCalls' = [k \in 1..Min(CONCURRENCY, Len(ts)) |->
                                 ts[k].login]
             /\ cliPc' = IF ts = <<>> THEN "done" ELSE "fetch"
             /\ ugandaUsers' = <<>>
             /\ UNCHANGED <<queryIdx, cliPage, cliAttempt, logins,
                            loginToQuery, cliPages, searched>>
  /\ UNCHANGED faultsLeft
  /\ CliFrame

\* fetchUser of task t returns user: pLimit runs the next task; when every
\* task has settled, lines 229-262
settle(t, user) ==
  LET ts1 == [tasks EXCEPT ![t].st = "done", ![t].user = user]
      ts2 == startNext(ts1)
  IN /\ tasks' = ts2
     /\ fetchCalls' = fetchCalls \o started(ts1, ts2)
     /\ IF \A k \in 1..Len(ts2) : ts2[k].st = "done"
        THEN cliPc' = "done" /\ ugandaUsers' = written(ts2)
        ELSE UNCHANGED <<cliPc, ugandaUsers>>
     /\ UNCHANGED <<queryIdx, cliPage, cliAttempt, logins, loginToQuery,
                    cliPages, searched>>

\* lines 163-185: the profile request of task t is answered
CliFetchOk(t) ==
  /\ cliPc = "fetch"
  /\ tasks[t].st = "running"
  /\ \E data \in CliProfiles(tasks[t].login) :
       settle(t, userRecord(data, tasks[t].query))
  /\ UNCHANGED faultsLeft
  /\ CliFrame

\* lines 95-110 and 186-189: the profile request of task t is rejected
CliFetchError(t) ==
  /\ cliPc = "fetch"
  /\ tasks[t].st = "running"
  /\ faultsLeft > 0
  /\ faultsLeft' = faultsLeft - 1
  /\ \E err \in CliErrors :
       IF withRetryCatch(tasks[t].attempt, err) = "wait"
       THEN /\ tasks' = [tasks EXCEPT ![t].st = "sleeping"]
            /\ UNCHANGED <<cliPc, queryIdx, cliPage, cliAttempt, logins,
                           loginToQuery, ugandaUsers, cliPages, searched,
                           fetchCalls>>
       ELSE settle(t, NoUser)
  /\ CliFrame

\* lines 78-84 and 105-107 for task t
CliFetchWake(t) ==
  /\ cliPc = "fetch"
  /\ tasks[t].st = "sleeping"
  /\ tasks' = [tasks EXCEPT ![t].st = "running", ![t].attempt = @ + 1]
  /\ UNCHANGED <<faultsLeft, cliPc, queryIdx, cliPage, cliAttempt, logins,
                 loginToQuery, ugandaUsers, cliPages, searched, fetchCalls>>
  /\ CliFrame

InitCli ==
  /\ cliPc = "start"
  /\ NoCliYet
  /\ faultsLeft = MaxCliFaults
  /\ body = NoBody
  /\ opts = NoOpts
  /\ pc = "none"
  /\ Fresh
  /\ NoText
  /\ NoCsv
  /\ NoWeb3

NextCli ==
  \/ CliStart
  \/ CliSearchOk
  \/ CliSearchError
  \/ CliRetryWake
  \/ CliPageWake
  \/ CliQueryWake
  \/ \E t \in 1..Len(tasks) : CliFetchOk(t)
  \/ \E t \in 1..Len(tasks) : CliFetchError(t)
  \/ \E t \in 1..Len(tasks) : CliFetchWake(t)

SpecCli == InitCli /\ [][NextCli]_vars

(***************************************************************************)
(* Properties of the search phase                                          *)
(***************************************************************************)
\* line 216 has run: the search phase is over
SearchOver == pc \in {"resolve", "done"}

\* the query of term t of the run
QueryOf(t) == BuildQuery(opts.locations[t], opts.minRepos, opts.minFollowers)

\* the positions of login l among the items term t returned
Hits(t, l) == {k \in 1..Len(returned[t]) : returned[t][k].login = l}

\* the queries of terms 1..t, in term order, one for each item carrying l
RECURSIVE Provenance(_, _)
Provenance(l, t) ==
  IF t = 0 THEN <<>>
  ELSE Provenance(l, t - 1) \o [k \in 1..Cardinality(Hits(t, l)) |-> QueryOf(t)]

\* the logins any term returned
Surfaced ==
  UNION {{returned[t][k].login : k \in 1..Len(returned[t])} :
           t \in 1..Len(returned)}

\* the number of items terms 1..t returned, repeats included
RECURSIVE ItemCount(_)
ItemCount(t) == IF t = 0 THEN 0 ELSE ItemCount(t - 1) + Len(returned[t])

\* C1: after the search phase the dedup map holds exactly one entry for each
\* distinct login any term returned; an entry's sourceQueries lists, in term
\* order, the query of every term that surfaced the login (a login surfaced by
\* term 1 and then by term 2 carries <<q(1), q(2)>>); uniqueUsers is the number
\* of distinct logins and totalCandidates the number of items returned over all
\* terms, repeats included.
C1_DedupProvenance ==
  SearchOver =>
    /\ Len(returned) = Len(opts.locations)
    /\ \A j, k \in 1..Len(loginMap) :
         loginMap[j].item.login = loginMap[k].item.login => j = k
    /\ {loginMap[k].item.login : k \in 1..Len(loginMap)} = Surfaced
    /\ \A k \in 1..Len(loginMap) :
         loginMap[k].sourceQueries
           = Provenance(loginMap[k].item.login, Len(returned))
    /\ uniqueUsers = Cardinality(Surfaced)
    /\ totalCandidates = ItemCount(Len(returned))

\* a login surfaced once by each of two terms with different queries, counted
\* twice among the candidates and once among the unique users
C1_Witness ==
  /\ SearchOver
  /\ Len(opts.locations) = 2
  /\ QueryOf(1) # QueryOf(2)
  /\ \E k \in 1..Len(loginMap) :
       /\ Cardinality(Hits(1, loginMap[k].item.login)) = 1
       /\ Cardinality(Hits(2, loginMap[k].item.login)) = 1
       /\ loginMap[k].sourceQueries = <<QueryOf(1), QueryOf(2)>>
  /\ uniqueUsers = 2
  /\ totalCandidates = 3

\* C2: for every completed run, keptAfterFilter (the length of users) is at
\* most uniqueUsers, which is at most totalCandidates.
C2_CountOrdering ==
  pc = "done" =>
    /\ Len(result.users) <= result.uniqueUsers
    /\ result.uniqueUsers <= result.totalCandidates

\* a completed run whose three counts differ
C2_Witness ==
  /\ pc = "done"
  /\ 1 <= Len(result.users)
  /\ Len(result.users) < result.uniqueUsers
  /\ result.uniqueUsers < result.totalCandidates

(***************************************************************************)
(* Properties of the detail phase                                          *)
(***************************************************************************)
\* the logins of the records pushed so far
KeptLogins == {users[k].login : k \in 1..Len(users)}

\* the logins of the entries
EntryLogins == {entries[k].item.login : k \in 1..Len(entries)}

\* C3: in every reachable state, whatever the interleaving of the workers, the
\* detail phase has output no more records than there are unique entries (at
\* most one for an entry), and every record's confidenceScore is at least
\* minScore.
C3_DetailOutput ==
  /\ Len(users) <= Len(entries)
  /\ KeptLogins \subseteq EntryLogins
  /\ \A j, k \in 1..Len(users) : users[j].login = users[k].login => j = k
  /\ \A k \in 1..Len(users) : users[k].confidenceScore >= opts.minScore
  /\ pc = "done" =>
       /\ Len(result.users) <= result.uniqueUsers
       /\ \A k \in 1..Len(result.users) :
            result.users[k].confidenceScore >= opts.minScore

\* the second of two workers has pushed one record and filtered one candidate
\* out while the first still awaits the profile of entry 0
C3_Witness ==
  /\ pc = "resolve"
  /\ Len(workers) = 2
  /\ workers[1].st = "fetching"
  /\ workers[1].i = 0
  /\ Len(users) = 1
  /\ \E l \in Logins :
       /\ outcome[l].st = "resolved"
       /\ outcome[l].score < opts.minScore

\* C4: no entry index is taken by two workers, and no worker takes an index
\* outside 0..|entries|-1.
C4_IndexTakenOnce ==
  /\ \A j, k \in 1..Len(taken) : taken[j] = taken[k] => j = k
  /\ \A k \in 1..Len(taken) : 0 <= taken[k] /\ taken[k] <= Len(entries) - 1
  /\ \A v, w \in 1..Len(workers) :
       (v # w /\ workers[v].st = "fetching" /\ workers[w].st = "fetching")
         => workers[v].i # workers[w].i
  /\ \A w \in 1..Len(workers) :
       0 <= workers[w].i /\ workers[w].i <= Len(entries) - 1

\* two workers at work after one of them took the third and last index
C4_Witness ==
  /\ pc = "resolve"
  /\ Len(workers) = 2
  /\ \A w \in 1..2 : workers[w].st = "fetching"
  /\ Len(entries) = 3
  /\ taken = <<0, 1, 2>>

(***************************************************************************)
(* Properties of the retry policy                                          *)
(***************************************************************************)
\* the ghFetch invocations of the run
Calls == {scall} \cup {workers[w].call : w \in 1..Len(workers)}

\* an answer with a rate-limit status and one of the two rate-limit signals
Qualifies(a) ==
  /\ a.kind = "response"
  /\ a.status \in {403, 429}
  /\ (a.remaining = "0" \/ a.body = BodyRateLimited)

\* C5: after a rate-limit answer (403 or 429, remaining quota "0") whose reset
\* time R lies in the future, with retries left, the call issues no request
\* until it has waited at least R - now + 2000 ms, and then requests the same
\* URL again; when a retry succeeds no error reaches fetchProfile or the worker
\* and the candidate is resolved as if there had been no rate limit.
C5_RateLimitBackoff ==
  /\ \A c \in Calls :
       /\ c.st \in {"inflight", "sleeping"} =>
            /\ c.sent = c.attempt + 1
            /\ c.req = c.url
       /\ c.st = "sleeping" => c.waits = c.sent
       /\ (c.st = "inflight" /\ c.attempt > 0 /\ c.resetIn > 0) =>
            c.slept >= c.resetIn + 2000
  /\ \A w \in 1..Len(workers) :
       LET lst == workers[w].last
       IN (lst.ok /\ lst.waits > 0) =>
            /\ outcome[lst.login].st = "resolved"
            /\ error = NoErr
            /\ pc # "thrown"
            /\ outcome[lst.login].score >= opts.minScore =>
                 lst.login \in KeptLogins

\* a worker's profile request met a quota answer whose reset was 4 s ahead,
\* was retried with success, and the candidate's record was pushed
C5_Witness ==
  \E w \in 1..Len(workers) :
    /\ workers[w].last.ok
    /\ workers[w].last.waits = 1
    /\ workers[w].last.resetIn = 4000
    /\ workers[w].last.login \in KeptLogins

\* C6 as claimed: when every attempt of a call (the first and each of the
\* maxRetries retries) meets a rate-limit answer, ghFetch throws the distinct
\* error "Exhausted retries".
C6_ExhaustedIsDistinct ==
  (/\ scall.st = "thrown"
   /\ scall.sent = GhMaxRetries + 1
   /\ scall.waits = GhMaxRetries
   /\ Qualifies(scall.ans))
    => error.msg = "Exhausted retries"

\* C7: a non-success answer is retried only if its status is 403 or 429 and
\* either the remaining quota reads "0" or the body mentions a rate limit; any
\* other non-success answer is terminal: no wait, no further request, and an
\* error thrown for that one call.
C7_RetryOnlyOnRateLimit ==
  /\ \A c \in Calls :
       (c.st = "sleeping" \/ (c.st = "inflight" /\ c.attempt > 0))
         => Qualifies(c.ans)
  /\ (/\ scall.ans.kind = "response"
      /\ ~ (scall.ans.status >= 200 /\ scall.ans.status <= 299)
      /\ ~ Qualifies(scall.ans)) =>
       /\ scall.st = "thrown"
       /\ scall.waits = scall.attempt
       /\ scall.sent = scall.attempt + 1
       /\ error.msg = "GitHub API"
       /\ error.status = scall.ans.status

\* a search request was retried after a rate-limit answer, and then a 403
\* answer with neither signal ended the call
C7_Witness ==
  /\ scall.st = "thrown"
  /\ scall.attempt = 1
  /\ scall.ans.status = 403
  /\ ~ Qualifies(scall.ans)

\* C8 as claimed: a request that exceeds the per-call timeout fails one entry,
\* never the whole run, in the search phase as in the detail phase.
C8_TimeoutIsPerEntry == ~ (pc = "thrown" /\ error.msg = "TimeoutError")

\* C9 as claimed: a terminal failure of a search request ends the pagination
\* of its term only; scrapeUsers goes on and returns a result, it does not
\* throw.
C9_SearchFailureContained ==
  scall.st = "thrown" => (pc # "thrown" /\ error = NoErr)

\* C10: a terminal failure of a profile request skips that candidate only: the
\* candidate counts in uniqueUsers and gets no record, the worker goes on to
\* the next entry, the other workers and the run are not aborted, and the run
\* ends with the records of all the other candidates that pass the filter.
C10_DetailFailureSkips ==
  LET lost == {l \in Logins : outcome[l] = Failed}
  IN lost # {} =>
       /\ pc \in {"resolve", "done"}
       /\ error = NoErr
       /\ lost \subseteq EntryLogins
       /\ lost \cap KeptLogins = {}
       /\ uniqueUsers = Len(entries)
       /\ \A w \in 1..Len(workers) :
            workers[w].st = "done" => idx >= Len(entries)
       /\ pc = "done" =>
            /\ result.uniqueUsers = Len(entries)
            /\ \A l \in EntryLogins : outcome[l] # Unresolved
            /\ {result.users[k].login : k \in 1..Len(result.users)}
                 = {l \in EntryLogins : /\ outcome[l].st = "resolved"
                                        /\ outcome[l].score >= opts.minScore}

\* a completed run of one worker over three entries: the first profile
\* request failed, and a later candidate has its record
C10_Witness ==
  /\ pc = "done"
  /\ Len(workers) = 1
  /\ Len(entries) = 3
  /\ outcome[entries[1].item.login] = Failed
  /\ result.uniqueUsers = 3
  /\ Len(result.users) >= 1

(***************************************************************************)
(* Properties of pagination and of the order of the phases                 *)
(***************************************************************************)
\* the items of the first n pages of the running searchUsers, in order
RECURSIVE Collected(_)
Collected(n) == IF n = 0 THEN <<>> ELSE Collected(n - 1) \o pages[n].items

\* page k was empty, or with it the items collected reached its total_count
StopAt(k) ==
  \/ pages[k].items = <<>>
  \/ (pages[k].total_count # Absent
        /\ Len(Collected(k)) >= pages[k].total_count)

\* C13: searchUsers requests pages 1, 2, ... of its query in increasing order
\* and stops after the first page that is empty, or as soon as the items
\* collected reach the total_count the server reports, or after page maxPages,
\* whichever comes first; it returns the items of all the pages it requested,
\* concatenated in the order the server returned them.
C13_Pagination ==
  /\ \A k \in 1..Len(pages) : pages[k].page = k
  /\ (pc = "search" /\ scall.st # "thrown") =>
       /\ scall.url.page = Len(pages) + 1
       /\ scall.url.page <= opts.maxPagesPerQuery
       /\ \A k \in 1..Len(pages) : ~ StopAt(k)
       /\ items = Collected(Len(pages))
  /\ pc = "pageDelay" => \A k \in 1..Len(pages) : ~ StopAt(k)
  /\ pc = "termDelay" =>
       LET n == Len(pages)
       IN /\ n <= opts.maxPagesPerQuery
          /\ \A k \in 1..(n - 1) : ~ StopAt(k)
          /\ (n >= 1 /\ StopAt(n)) \/ n = opts.maxPagesPerQuery
          /\ returned[Len(returned)] = Collected(n)

\* of three pages allowed two were requested: the second one brought the
\* items collected to the reported total
C13_Witness ==
  /\ pc = "termDelay"
  /\ opts.maxPagesPerQuery = 3
  /\ Len(pages) = 2
  /\ pages[1].items # <<>>
  /\ pages[2].items # <<>>
  /\ pages[2].total_count = 2
  /\ returned[Len(returned)] = pages[1].items \o pages[2].items

\* C14: in the search phase at most one search request is outstanding: page
\* N+1 of a term is requested only after the answer to page N was consumed,
\* and a request for a later term only after the pagination of every earlier
\* term has ended.
C14_SearchSequential ==
  /\ scall.st \in {"inflight", "sleeping"} =>
       /\ pc = "search"
       /\ scall.url.page = Len(pages) + 1
       /\ termIdx = Len(returned) + 1
       /\ scall.url.q = QueryOf(Len(returned) + 1)
       /\ workers = <<>>
  /\ pc \in {"pageDelay", "termDelay", "resolve", "done"} => scall.st = "idle"

\* page 2 of the second term is requested: page 1 of it and the whole first
\* term have been answered
C14_Witness ==
  /\ pc = "search"
  /\ scall.st = "inflight"
  /\ scall.url.page = 2
  /\ Len(pages) = 1
  /\ termIdx = 2
  /\ Len(returned) = 1

\* C15: scrapeUsers issues no profile request before the search phase is
\* over: the last term's pagination has ended and the dedup map is final.
C15_SearchBeforeDetail ==
  /\ (workers # <<>> \/ taken # <<>> \/ pc \in {"resolve", "done"}) =>
       /\ termIdx = Len(opts.locations) + 1
       /\ Len(returned) = Len(opts.locations)
       /\ scall.st = "idle"
       /\ entries = loginMap
  /\ pc \in {"start", "search", "pageDelay", "termDelay", "thrown"} =>
       /\ workers = <<>>
       /\ taken = <<>>
       /\ \A l \in Logins : outcome[l] = Unresolved

\* profile requests are in flight after both terms were searched
C15_Witness ==
  /\ pc = "resolve"
  /\ Len(opts.locations) = 2
  /\ Len(returned) = 2
  /\ \E w \in 1..Len(workers) : workers[w].call.st = "inflight"

(***************************************************************************)
(* Properties of the order of the output                                   *)
(***************************************************************************)
\* the place of record r in the sequence us
PlaceIn(us, r) == CHOOSE k \in 1..Len(us) : us[k] = r

\* C16: the users scrapeUsers returns are ordered by confidenceScore, highest
\* first; records of equal score by followers, highest first; records equal
\* on both keep the order in which they were appended to the output.
C16_SortedOutput ==
  pc = "done" =>
    LET out == result.users
    IN /\ Len(out) = Len(appended)
       /\ {out[k] : k \in 1..Len(out)} = {appended[k] : k \in 1..Len(out)}
       /\ \A j, k \in 1..Len(out) :
            j < k =>
              \/ out[j].confidenceScore > out[k].confidenceScore
              \/ /\ out[j].confidenceScore = out[k].confidenceScore
                 /\ out[j].followers > out[k].followers
              \/ /\ out[j].confidenceScore = out[k].confidenceScore
                 /\ out[j].followers = out[k].followers
                 /\ PlaceIn(appended, out[j]) < PlaceIn(appended, out[k])

\* three records were returned in another order than they were appended in,
\* two of them equal on both keys
C16_Witness ==
  /\ pc = "done"
  /\ Len(result.users) = 3
  /\ result.users # appended
  /\ \E j, k \in 1..3 :
       /\ j < k
       /\ result.users[j].confidenceScore = result.users[k].confidenceScore
       /\ result.users[j].followers = result.users[k].followers

\* the records us in the order of their entries in the dedup map
InEntryOrder(us) ==
  LET kept == {k \in 1..Len(entries) :
                 \E j \in 1..Len(us) : us[j].login = entries[k].item.login}
      nth(n) == CHOOSE k \in kept : Cardinality({m \in kept : m < k}) = n - 1
  IN [n \in 1..Cardinality(kept) |->
        us[CHOOSE j \in 1..Len(us) : us[j].login = entries[nth(n)].item.login]]

\* C17 as claimed: two runs on the same inputs return the users in the same
\* order, whatever the interleaving of the workers.  One run on the inputs of
\* this run is the one whose profile answers arrive in the order of the
\* entries, which returns the sort of the records in entry order; so every run
\* returns that.
C17_OrderDeterministic ==
  pc = "done" => result.users = SortUsers(InEntryOrder(result.users))

(***************************************************************************)
(* Properties of the scrape route                                          *)
(***************************************************************************)
\* the request has a list of terms that is no array, or an empty one
BadLocations ==
  /\ body.kind = "object"
  /\ body.locations.t # "undefined"
  /\ body.locations.t # "array" \/ Len(body.locations.a) = 0

\* no request was made of the remote API
NoRemoteCall ==
  /\ scall = IdleCall
  /\ workers = <<>>
  /\ pages = <<>>
  /\ returned = <<>>
  /\ taken = <<>>

\* C11: a scrape request whose locations is given and is no array, or is an
\* empty array, is answered with status 400; no request was made of the
\* remote API and nothing was written to the run cache.
C11_BadLocationsRejected ==
  (BadLocations /\ pc # "request") =>
    /\ pc = "responded"
    /\ http.status = 400
    /\ NoRemoteCall
    /\ \A r \in RunIds : store[r] = NoEntry /\ stored[r] = NoStored

\* a request with an empty array was answered
C11_Witness ==
  /\ BadLocations
  /\ body.locations.t = "array"
  /\ pc = "responded"
  /\ http.status = 400

\* scrapeUsers was called with opts
Scraping == pc \notin {"request", "responded"} \/ http.status \in {200, 500}

\* C12 as claimed: whatever the caller supplied, the options scrapeUsers is
\* called with have perPage <= 100, maxPagesPerQuery <= 10 and
\* concurrency <= 10; no term is asked for more than 10 pages and no more
\* than 10 fetchProfile calls are in flight.
C12_OptionsClamped ==
  Scraping =>
    /\ JsLeq(opts.perPage, 100)
    /\ JsLeq(opts.maxPagesPerQuery, 10)
    /\ JsLeq(opts.concurrency, 10)
    /\ Len(pages) <= 10
    /\ Len(workers) <= 10

(***************************************************************************)
(* Properties of the run cache and of the export routes                    *)
(***************************************************************************)
\* the age at the call c of cacheGet of the entry last stored under its handle
AgeAt(c) == c.at - c.entry.createdAt

\* C18: cacheGet returns no entry whose TTL has elapsed: what it returns is
\* the users last stored under the handle, no longer than TTL_MS ago; and for
\* a handle whose last store is longer ago it returns null.
C18_NoExpiredEntry ==
  /\ got.found =>
       /\ got.entry.present
       /\ AgeAt(got) <= TTL_MS
       /\ got.users = got.entry.users
  /\ (got.runId # NULL /\ got.entry.present /\ AgeAt(got) > TTL_MS) =>
       ~ got.found

\* cacheGet was called for a handle stored longer than TTL_MS before
C18_Witness ==
  /\ got.runId # NULL
  /\ got.entry.present
  /\ AgeAt(got) > TTL_MS
  /\ ~ got.found

\* C19: cacheGet called at the instant of the last cacheSet of its handle
\* returns the users of that cacheSet, also when the handle was stored
\* before and when other handles are stored.
C19_GetAfterSet ==
  (got.runId # NULL /\ got.entry.present /\ AgeAt(got) = 0) =>
    /\ got.found
    /\ got.users = got.entry.users

\* cacheGet returned the users of the second store of a handle, at its
\* instant, while another handle held other users
C19_Witness ==
  /\ got.found
  /\ got.entry.sets = 2
  /\ AgeAt(got) = 0
  /\ got.at > 0
  /\ got.users = <<cachedB, cachedA>>
  /\ \E r \in RunIds :
       r # got.runId /\ store[r].present /\ store[r].users = <<cachedA>>

\* C20: for a handle never stored, or last stored longer than TTL_MS ago,
\* cacheGet returns null and an export route answers 404, which is neither
\* the 400 of a request without handle nor a 500; every export request is
\* answered.
C20_NotFound ==
  /\ (got.runId # NULL /\ (~ got.entry.present \/ AgeAt(got) > TTL_MS)) =>
       ~ got.found
  /\ (http.get.runId # NULL
        /\ (~ http.get.entry.present \/ AgeAt(http.get) > TTL_MS)) =>
       /\ ~ http.get.found
       /\ http.status = 404
  /\ http.get.runId = NULL => http.status \in {0, 400}
  /\ http.status \in {0, 200, 400, 404}

\* an export request for a handle whose TTL has elapsed was answered 404
C20_Witness ==
  /\ http.status = 404
  /\ http.get.entry.present
  /\ AgeAt(http.get) > TTL_MS

(***************************************************************************)
(* Properties of the dedup map and of the worker pool                      *)
(***************************************************************************)
\* C21 as claimed: in no entry of the dedup map does sourceQueries hold the
\* same query at two consecutive positions, whatever the search results,
\* those in which one term returns a login more than once included.
C21_NoConsecutiveQuery ==
  \A k \in 1..Len(loginMap) :
    \A j \in 1..(Len(loginMap[k].sourceQueries) - 1) :
      loginMap[k].sourceQueries[j] # loginMap[k].sourceQueries[j + 1]

\* the fetchProfile calls in flight
InFlight ==
  {w \in 1..Len(workers) :
     workers[w].st = "fetching" /\ workers[w].call.st = "inflight"}

\* C22: for a concurrency that is a natural number, worker() is invoked
\* min(concurrency, |entries|) times, and never more than that many
\* fetchProfile calls are in flight; there is no worker before the entries
\* exist.
C22_WorkerPoolSize ==
  /\ pc \in {"resolve", "done"} =>
       /\ Len(workers) = Min(opts.concurrency, Len(entries))
       /\ Cardinality(InFlight) <= Min(opts.concurrency, Len(entries))
  /\ pc \notin {"resolve", "done"} => workers = <<>>

\* two workers, both with a call in flight, have taken all of three entries
C22_Witness ==
  /\ pc = "resolve"
  /\ Len(entries) = 3
  /\ opts.concurrency = 2
  /\ Cardinality(InFlight) = 2
  /\ idx = 3

\* C23: from the first fetchProfile call until scrapeUsers returns, no step
\* changes the dedup map, the list of its entries, the item or the
\* sourceQueries of an entry, or uniqueUsers; the map is written only while
\* no worker exists.
C23_MapReadOnly ==
  [][ /\ (workers # <<>> \/ pc \in {"resolve", "done"}) =>
           /\ loginMap' = loginMap
           /\ entries' = entries
           /\ uniqueUsers' = uniqueUsers
      /\ loginMap' # loginMap => (workers = <<>> /\ workers' = <<>>) ]_vars

\* a worker has ended an entry and pushed its record while another entry is
\* being fetched, and the entries are the map the search phase built, with a
\* login two terms returned
C23_Witness ==
  /\ pc = "resolve"
  /\ Len(appended) = 0
  /\ Len(users) >= 1
  /\ InFlight # {}
  /\ entries = loginMap
  /\ \E k \in 1..Len(loginMap) : Len(loginMap[k].sourceQueries) = 2

(***************************************************************************)
(* Properties of the rate-limit wait                                       *)
(***************************************************************************)
\* the length of the sleep the call c is in: the time it has lasted and the
\* time it has left
SleepOf(c) == c.slept + c.wakeIn

\* C24: the sleep ghFetch begins at a rate-limit answer lasts
\* max(resetAt - now + 2000, 5000) ms: at least 5000 ms, also when the reset
\* header is absent or the reset time is past, and at least the time to the
\* reset plus 2000 ms; the next request is issued when it has passed.
C24_WaitFormula ==
  \A c \in Calls :
    /\ c.st = "sleeping" =>
         /\ SleepOf(c) =
              (IF c.resetIn + 2000 >= 5000 THEN c.resetIn + 2000 ELSE 5000)
         /\ SleepOf(c) >= 5000
         /\ SleepOf(c) >= c.resetIn + 2000
    /\ (c.st = "inflight" /\ c.attempt > 0) =>
         /\ c.slept >= 5000
         /\ c.slept >= c.resetIn + 2000

\* a call that met a rate-limit answer without reset header has slept 5000 ms
\* and issued its request again
C24_Witness ==
  \E c \in Calls :
    /\ c.st = "inflight"
    /\ c.attempt = 1
    /\ c.resetIn = 0 - ClockMs
    /\ c.slept = 5000

(***************************************************************************)
(* Properties of lib/normalize                                             *)
(***************************************************************************)
\* C25: normaliseLocation is idempotent, in lib/normalize.ts and in
\* src/normalize.js: the normalisation of a raw location, normalised again,
\* is itself.
C25_NormaliseIdempotent ==
  textPc = "done" =>
    /\ normAgain = normOut
    /\ normJsAgain = normJsOut

\* a raw location with a pictographic symbol, a capital and spaces around it,
\* whose cleaned form is an alias key, was normalised twice
C25_Witness ==
  /\ textPc = "done"
  /\ "<pin>" \in Range(rawIn)
  /\ "K" \in Range(rawIn)
  /\ Head(rawIn) = " "
  /\ normOut = sKampalaUganda
  /\ normAgain = sKampalaUganda

\* the scoring functions have been applied to normOut and normJsOut
Scored == textPc \in {"scored", "scoredPassed", "done"}

\* a city of UGANDA_CITIES other than the first stands in s as a token
OtherCityIn(s) ==
  \E c \in 2..Len(UGANDA_CITIES) : cityTokenMatch(s, UGANDA_CITIES[c])

\* C26: computeConfidenceScore gives the score of the first rule that
\* matches: 100 for every string that contains "uganda", whatever else it
\* contains; 85 for a string that contains "kampala" and not "uganda"; and
\* never a value other than 0, 50, 75, 85 and 100.
C26_ScorePriority ==
  Scored =>
    /\ includes(normOut, sUganda) => scoreOut = 100
    /\ (includes(normOut, sKampala) /\ ~ includes(normOut, sUganda)) =>
         scoreOut = 85
    /\ scoreOut \in {0, 50, 75, 85, 100}

\* a string with "uganda", another known city and the token "ug" scored 100
C26_Witness ==
  /\ Scored
  /\ includes(normOut, sUganda)
  /\ OtherCityIn(normOut)
  /\ ugTokenMatch(normOut)
  /\ scoreOut = 100

\* C27: for every entry c of UGANDA_CITIES, computeConfidenceScore(c) is 85
\* when c is "kampala" and 75 otherwise, and isUgandaLocation(c) is true, in
\* lib/normalize.ts and in src/normalize.js.
C27_KnownCities ==
  (Scored /\ rawIn \in Range(UGANDA_CITIES)) =>
    /\ normOut = rawIn
    /\ scoreOut = (IF rawIn = sKampala THEN 85 ELSE 75)
    /\ ugOut
    /\ ugJsOut

\* the city of two words was handed to the scoring functions as it is
C27_Witness ==
  /\ textPc = "scoredPassed"
  /\ rawIn = UGANDA_CITIES[11]
  /\ scoreOut = 75
  /\ ugOut
  /\ ugJsOut

Letters == LowerSet \cup Range(UpperAZ)

\* "ug" occurs in s, and only inside longer runs of letters
UgEmbeddedOnly(s) ==
  /\ includes(s, <<"u", "g">>)
  /\ \A k \in 1..(Len(s) - 1) :
       (s[k] = "u" /\ s[k + 1] = "g") =>
         \/ (k > 1 /\ s[k - 1] \in Letters)
         \/ (k + 2 <= Len(s) /\ s[k + 2] \in Letters)

\* no rule of the scoring functions other than that of the token "ug"
\* matches s
NoOtherRule(s) ==
  /\ ~ includes(s, sUganda)
  /\ ~ includes(s, sKampala)
  /\ ~ OtherCityIn(s)
  /\ ~ ugDottedMatch(s)

\* C28: for a string in which "ug" occurs only inside longer runs of letters
\* and which matches no other rule, computeConfidenceScore is 0 and
\* isUgandaLocation is false, in lib/normalize.ts and in src/normalize.js.
C28_UgOnlyAsToken ==
  Scored =>
    /\ (UgEmbeddedOnly(normOut) /\ NoOtherRule(normOut)) =>
         (scoreOut = 0 /\ ~ ugOut)
    /\ (UgEmbeddedOnly(normJsOut) /\ NoOtherRule(normJsOut)) => ~ ugJsOut

\* a string with "drug" and "debugging" scored 0
C28_Witness ==
  /\ Scored
  /\ includes(normOut, <<"d", "r", "u", "g">>)
  /\ includes(normOut, <<"d", "e", "b", "u", "g", "g", "i", "n", "g">>)
  /\ UgEmbeddedOnly(normOut)
  /\ scoreOut = 0
  /\ ~ ugOut
  /\ ~ ugJsOut

\* the caller has normalised rawIn, a string that is neither null nor empty
Normalised ==
  /\ textPc \in {"normalised", "scored", "done"}
  /\ rawIn # NullText
  /\ rawIn # <<>>

sKampalaUg == <<"k", "a", "m", "p", "a", "l", "a", " ", "u", "g">>

\* C29: normaliseLocation replaces the cleaned string (trimmed, without
\* pictographic symbols, whitespace collapsed, lowercased) by the expansion
\* of an alias when it equals the key of the alias, and returns it as it is
\* otherwise, also when a key occurs in it; a raw location that cleans to
\* "kampala ug" normalises to "kampala, uganda" and scores 100.
C29_AliasExactMatch ==
  Normalised =>
    LET cleaned == cleanLocation(rawIn)
        keys == {a \in 1..Len(LOCATION_ALIASES) :
                   LOCATION_ALIASES[a][1] = cleaned}
    IN /\ \A a \in keys : normOut = LOCATION_ALIASES[a][2]
       /\ keys = {} => normOut = cleaned
       /\ cleaned = sKampalaUg =>
            /\ normOut = sKampalaUganda
            /\ textPc \in {"scored", "done"} => scoreOut = 100

\* a raw location whose cleaned form holds the key "kampala ug" after another
\* word was returned without expansion, and scored 85
C29_Witness ==
  /\ Normalised
  /\ textPc = "scored"
  /\ includes(normOut, sKampalaUg)
  /\ normOut # sKampalaUg
  /\ normOut = cleanLocation(rawIn)
  /\ rawIn # normOut
  /\ scoreOut = 85

\* a marker of FALSE_POSITIVE_MARKERS occurs in s
MarkerIn(s) ==
  \E m \in 1..Len(FALSE_POSITIVE_MARKERS) :
    includes(s, FALSE_POSITIVE_MARKERS[m])

\* C30: isLikelyUganda is false for every string in which a
\* conflicting-country marker occurs, whatever its score, and for every
\* string that scores 0; it is true exactly when the score is positive and no
\* marker occurs, so that it is true only of strings that score 50 or more.
C30_LikelyUganda ==
  Scored =>
    /\ MarkerIn(normOut) => ~ likelyOut
    /\ scoreOut = 0 => ~ likelyOut
    /\ likelyOut <=> (scoreOut > 0 /\ ~ MarkerIn(normOut))
    /\ likelyOut => scoreOut >= 50

\* a string with "uganda" and the marker ", us" scored 100 and is not likely
C30_Witness ==
  /\ Scored
  /\ scoreOut = 100
  /\ includes(normOut, <<",", " ", "u", "s">>)
  /\ ~ likelyOut

(***************************************************************************)
(* Properties of the records of the output                                 *)
(***************************************************************************)
\* C38: no two records of the output are of the same dedup entry; the
\* sourceQueries of a record is the list of its entry as the search phase
\* left it; and the confidenceScore and isLikelyUganda of a record are those
\* of the normalised location of the record's profile.
C38_RecordProvenance ==
  /\ \A j, k \in 1..Len(users) : users[j].login = users[k].login => j = k
  /\ \A j \in 1..Len(users) :
       LET r == users[j]
           normLoc == normaliseLocation(r.location)
       IN /\ \E k \in 1..Len(loginMap) :
               /\ loginMap[k].item.login = r.login
               /\ r.sourceQueries = loginMap[k].sourceQueries
               /\ r.sourceQueries = Provenance(r.login, Len(opts.locations))
          /\ r.confidenceScore = computeConfidenceScore(normLoc)
          /\ r.isLikelyUganda = isLikelyUganda(normLoc)
  /\ pc = "done" => result.users = users

\* the run returned two records, one of a login that both terms surfaced
C38_Witness ==
  /\ pc = "done"
  /\ Len(result.users) >= 2
  /\ \E j \in 1..Len(result.users) : Len(result.users[j].sourceQueries) = 2
  /\ \E j \in 1..Len(result.users) : Len(result.users[j].sourceQueries) = 1

(***************************************************************************)
(* Properties of the scrape route with the run cache                       *)
(***************************************************************************)
\* C37: after a 200 of the scrape route the run cache holds, under the runId
\* of the response, the users of the response, which are those scrapeUsers
\* returned, and keptAfterFilter is their number; an export of that runId no
\* later than TTL_MS after it answers 200 with the same users in the same
\* order; and when scrapeUsers threw, the answer is a 500 and the cache is as
\* it was.
C37_RouteFillsCache ==
  /\ (pc = "responded" /\ http.status = 200 /\ http.get.runId = NULL) =>
       /\ store[http.runId].present
       /\ store[http.runId].users = http.users
       /\ http.users = result.users
       /\ http.kept = Len(http.users)
       /\ \A r \in RunIds \ {http.runId} : store[r] = NoEntry
  /\ (http.get.runId # NULL /\ AgeAt(http.get) <= TTL_MS) =>
       /\ http.status = 200
       /\ http.users = result.users
       /\ http.runId = http.get.runId
  /\ error # NoErr =>
       /\ pc \in {"thrown", "responded"}
       /\ pc = "responded" => http.status = 500
       /\ \A r \in RunIds : store[r] = NoEntry

\* a run of two users in another order than their logins was exported after
\* some time, before the TTL had elapsed
C37_Witness ==
  /\ http.get.runId # NULL
  /\ AgeAt(http.get) = 1
  /\ http.status = 200
  /\ Len(http.users) = 2
  /\ http.users[1].login = "u3"
  /\ http.users = result.users

\* the knobs of the request are numbers, or are left to their defaults
NumericKnobs ==
  /\ body.kind = "object"
  /\ \A v \in {body.maxPagesPerQuery, body.perPage, body.concurrency} :
       v.t \in {"number", "undefined"}

\* C33 as claimed: for a request with numeric knobs that the scrape route
\* accepts, the resolution is started with a concurrency of 1 or more, and
\* when scrapeUsers has returned the cursor has passed every entry and every
\* entry has had its one fetchProfile.
C33_EveryEntryResolved ==
  (NumericKnobs /\ pc \in {"resolve", "done", "responded"}
     /\ http.status \notin {400, 500}) =>
    /\ opts.concurrency >= 1
    /\ (pc \in {"done", "responded"} /\ error = NoErr) =>
         /\ idx = Len(entries)
         /\ \A k \in 1..Len(entries) :
              /\ Cardinality({j \in 1..Len(taken) : taken[j] = k - 1}) = 1
              /\ outcome[entries[k].item.login] # Unresolved

(***************************************************************************)
(* Properties of the eviction                                              *)
(***************************************************************************)
\* what the call c of cacheGet returned is what the calls of cacheSet and the
\* clock alone determine: the users last stored under the handle when they
\* were stored no longer than TTL_MS before, and null otherwise
GetDetermined(c) ==
  c.runId # NULL =>
    /\ c.found <=> (c.entry.present /\ AgeAt(c) <= TTL_MS)
    /\ c.found => c.users = c.entry.users

\* this step changes the Map and is no cacheGet and no cacheSet
EvictStep == store' # store /\ got' = got /\ stored' = stored

\* C36: the eviction cannot be observed through cacheGet: every cacheGet
\* returns what the calls of cacheSet and the clock determine, whether or
\* not evict has run; a run of evict removes the entries older than TTL_MS
\* and no other, and leaves the others as they are; and no entry other than
\* an expired one ever leaves the Map.
C36_EvictUnobservable ==
  [][ /\ GetDetermined(got')
      /\ GetDetermined(http'.get)
      /\ EvictStep =>
           \A r \in RunIds :
             store'[r] = IF store[r].present /\ now - store[r].createdAt > TTL_MS
                         THEN NoEntry ELSE store[r]
      /\ \A r \in RunIds :
           (stored'[r].present /\ now' - stored'[r].createdAt <= TTL_MS) =>
             (store'[r].present /\ store'[r].users = stored'[r].users) ]_vars

\* with no cacheGet made, evict has removed an expired entry and left one
\* that is TTL_MS old
C36_Witness ==
  /\ got = NoGet
  /\ http = NoHttp
  /\ \E r, o \in RunIds :
       /\ stored[r].present
       /\ ~ store[r].present
       /\ store[o].present
       /\ now - store[o].createdAt = TTL_MS

(***************************************************************************)
(* Termination of ghFetch and of scrapeUsers                               *)
(***************************************************************************)
\* the invocation c of ghFetch awaits a fetch or a sleep
Pending(c) == c.st \in {"inflight", "sleeping"}

\* requests and waits of every invocation are within maxRetries
RetryBounds ==
  \A c \in Calls :
    /\ c.sent <= GhMaxRetries + 1
    /\ c.waits <= GhMaxRetries
    /\ c.attempt <= GhMaxRetries

\* C34: an invocation of ghFetch with maxRetries = n issues at most n + 1
\* requests and waits at most n times; an invocation that awaits an answer or
\* a wait eventually returns or throws; and scrapeUsers eventually returns or
\* throws.
C34_RetryTerminates ==
  /\ []RetryBounds
  /\ Pending(scall) ~> ~ Pending(scall)
  /\ \A w \in 1..1 :
       (Len(workers) >= w /\ Pending(workers[w].call))
         ~> (Len(workers) >= w /\ ~ Pending(workers[w].call))
  /\ <>(pc \in {"done", "thrown"})

\* scrapeUsers has returned after a profile request that was answered with
\* success on its last attempt, after maxRetries waits
C34_Witness ==
  /\ pc = "done"
  /\ \E w \in 1..Len(workers) :
       /\ workers[w].last.ok
       /\ workers[w].last.waits = GhMaxRetries

(***************************************************************************)
(* Properties of buildCsv                                                  *)
(***************************************************************************)
\* the text has a character that ends or splits a field of a CSV line
NeedsQuoting(str) ==
  \E k \in 1..Len(str) : str[k] \in {",", "\"", "\n", "\r"}

\* the field emitted for value is the one of a quoting serialiser
FieldAsClaimed(value, field) ==
  IF value.t \in {"null", "undefined"} THEN field = <<>>
  ELSE LET str == fieldText(value)
       IN /\ NeedsQuoting(str) =>
               field = <<"\"">> \o doubleQuotes(str) \o <<"\"">>
          /\ ~ NeedsQuoting(str) => field = str

\* C31 as claimed: every field value with a comma, a quote, a line feed or a
\* carriage return is emitted in quotes with its quotes doubled, a list is
\* first joined with "|", and a null or absent value is the empty field.
C31_FieldsQuoted ==
  csvPc = "built" =>
    /\ Len(csvRows) = Len(csvUsers)
    /\ \A u \in 1..Len(csvUsers) : \A k \in 1..Len(COLUMNS) :
         FieldAsClaimed(csvUsers[u][COLUMNS[k]], csvRows[u][k])
    /\ csvOut =
         join(<<join([k \in 1..Len(COLUMNS) |-> <<COLUMNS[k]>>], <<",">>)>>
                \o [u \in 1..Len(csvRows) |-> join(csvRows[u], <<",">>)],
              <<"\n">>)

(***************************************************************************)
(* Properties of detectWeb3Skills                                          *)
(***************************************************************************)
\* the skill occurs in the text at k
OccursAt(text, skill, k) ==
  /\ k \in 1..(Len(text) - Len(skill) + 1)
  /\ SubSeq(text, k, k + Len(skill) - 1) = skill

\* the occurrence at k is not part of a longer run of letters
StandsAlone(text, skill, k) ==
  /\ (k = 1 \/ text[k - 1] \notin LowerSet)
  /\ (k + Len(skill) > Len(text) \/ text[k + Len(skill)] \notin LowerSet)

\* C32 as claimed: a keyword that occurs in the text only inside a longer run
\* of letters is absent from the result, and a keyword that stands alone
\* somewhere in the text is in the result.
C32_WholeWordsOnly ==
  web3Pc = "detected" =>
    LET text == web3Text(web3In.bio, web3In.company, web3In.blog)
    IN \A s \in 1..Len(WEB3_SKILLS) :
         LET skill == WEB3_SKILLS[s]
             reported == \E j \in 1..Len(web3Out) : web3Out[j] = skill
         IN /\ (\E k \in 1..Len(text) :
                  OccursAt(text, skill, k) /\ StandsAlone(text, skill, k))
                => reported
            /\ (\A k \in 1..Len(text) :
                  OccursAt(text, skill, k) => ~ StandsAlone(text, skill, k))
                => ~ reported

(***************************************************************************)
(* Properties of the command-line tool                                     *)
(***************************************************************************)
\* the logins of the Map
Keys == {loginToQuery[k].login : k \in 1..Len(loginToQuery)}

\* C35: a search request of a query that fails terminally ends the pages of
\* that query only: searchLogins returns every login of the pages it had
\* received, they are merged into the Map, the queries are searched one
\* after the other whatever failed before, and when the profile phase runs
\* every query has been searched and every login of the Map has its task.
C35_SearchFailureIsLocal ==
  /\ \A k \in 1..Len(searched) :
       /\ searched[k].query = CliQueries[k]
       /\ searched[k].logins = join(searched[k].pages, <<>>)
       /\ Range(searched[k].logins) \subseteq Keys
  /\ cliPc \in {"search", "retrySleep", "pageSleep"} =>
       Len(searched) = queryIdx - 1
  /\ cliPc = "querySleep" => Len(searched) = queryIdx
  /\ cliPc \in {"fetch", "done"} =>
       /\ Len(searched) = Len(CliQueries)
       /\ {tasks[t].login : t \in 1..Len(tasks)} = Keys

\* the first query failed on its second page, the login of its first page
\* was kept, the second query was searched, and the profile of that login
\* was fetched and written
C35_Witness ==
  /\ cliPc = "done"
  /\ Len(searched) = Len(CliQueries)
  /\ searched[1].failed
  /\ Len(searched[1].pages) = 1
  /\ ~ searched[2].failed
  /\ \E u \in 1..Len(ugandaUsers) :
       /\ ugandaUsers[u].login \in Range(searched[1].logins)
       /\ ugandaUsers[u].login \notin Range(searched[2].logins)

\* the calls of searchLogins that returned the login
Sightings(login) ==
  {k \in 1..Len(searched) : login \in Range(searched[k].logins)}

\* the first query, in the order of SEARCH_QUERIES, that surfaced the login
FirstQuery(login) ==
  CliQueries[CHOOSE k \in Sightings(login) : \A j \in Sightings(login) : k <= j]

\* the number of calls of fetchUser for the login
FetchCount(login) ==
  Cardinality({k \in 1..Len(fetchCalls) : fetchCalls[k] = login})

\* C39: the Map holds each login once, with the first query in the order of
\* SEARCH_QUERIES that surfaced it, whatever later queries surface it
\* again; the profile phase has one task per login of the Map, fetchUser is
\* called at most once per login and exactly once when the run is over, and
\* every record carries the query of the Map as its source_query.
C39_FirstQueryRecorded ==
  /\ \A i, j \in 1..Len(loginToQuery) :
       loginToQuery[i].login = loginToQuery[j].login => i = j
  /\ \A k \in 1..Len(loginToQuery) :
       /\ Sightings(loginToQuery[k].login) # {}
       /\ loginToQuery[k].query = FirstQuery(loginToQuery[k].login)
  /\ \A k \in 1..Len(searched) : Range(searched[k].logins) \subseteq Keys
  /\ \A login \in Logins : FetchCount(login) <= 1
  /\ cliPc \in {"fetch", "done"} =>
       /\ Len(tasks) = Len(loginToQuery)
       /\ \A t \in 1..Len(tasks) :
            /\ tasks[t].login = loginToQuery[t].login
            /\ tasks[t].query = loginToQuery[t].query
            /\ tasks[t].st # "queued" <=> FetchCount(tasks[t].login) = 1
            /\ tasks[t].user # NoUser =>
                 /\ tasks[t].user.login = tasks[t].login
                 /\ tasks[t].user.source_query = FirstQuery(tasks[t].login)
  /\ cliPc = "done" =>
       /\ \A login \in Keys : FetchCount(login) = 1
       /\ \A u \in 1..Len(ugandaUsers) :
            ugandaUsers[u].source_query = FirstQuery(ugandaUsers[u].login)

\* a login surfaced by both queries was fetched once and written with the
\* first query
C39_Witness ==
  /\ cliPc = "done"
  /\ \E u \in 1..Len(ugandaUsers) :
       /\ Sightings(ugandaUsers[u].login) = {1, 2}
       /\ ugandaUsers[u].source_query = CliQueries[1]
       /\ FetchCount(ugandaUsers[u].login) = 1

====
